---------------------------- MODULE Spec2Model ----------------------------
(***************************************************************************)
(* A model of audoDB: the tokenizer (src/lexer.js), the recursive-descent  *)
(* parser (src/unnamed/part_000, parser.js), the storage engine            *)
(* (src/database.js) and the dispatcher (src/unnamed/part_002,             *)
(* interpreter.js).                                                        *)
(*                                                                         *)
(* JavaScript strings are TLA+ strings (TLC evaluates Len, SubSeq and \o   *)
(* on them), so query texts, identifiers and messages are written as in    *)
(* the source.  A JavaScript value is a record [t, n, s]: t is the type    *)
(* tag, n the numeric payload, s the string payload.  A row (a JavaScript  *)
(* object) is a function from its keys to values; the order of an          *)
(* object's keys is not modelled.  A Map is a sequence of entries in       *)
(* insertion order.                                                        *)
(***************************************************************************)
EXTENDS Integers, Sequences, FiniteSets, TLC

VARIABLES
    databases,        \* Database.databases: Map name -> {name, tables}
    currentDatabase,  \* Database.currentDatabase: <<>> (null) or <<name>>
    file,             \* content of engine_data.json, NoFile while absent
    logged,           \* the lines the last call appended to history.log
    call,             \* the Storage Engine method called last
    result,           \* what the last call returned or threw
    script,           \* the texts a host passes to execute, in order
    pos,              \* number of texts of the script already executed
    pc,               \* position inside Interpreter.execute
    lexer,            \* the Lexer instance of the running execute call
    tokens,           \* Lexer.tokenize's local token array
    results           \* what execute returned for each text so far

vars == <<databases, currentDatabase, file, logged, call, result,
          script, pos, pc, lexer, tokens, results>>

engineVars == <<databases, currentDatabase, file, logged, call, result>>
execVars == <<script, pos, pc, lexer, tokens, results>>

----------------------------------------------------------------------------
(* Bounds of the model.                                                    *)

\* rows a table may hold before further inserts are left out
MaxRows == 2
\* tokens the tokenizer may push before the model stops following it
MaxTokens == 24

----------------------------------------------------------------------------
(* Characters and strings.                                                 *)

UpperChars == "ABCDEFGHIJKLMNOPQRSTUVWXYZ"
LowerChars == "abcdefghijklmnopqrstuvwxyz"
DigitChars == "0123456789"
\* the ASCII characters the model's strings are written in, in code-unit order
AsciiChars == " !#$%&'()*+,-./0123456789:;<=>?@ABCDEFGHIJKLMNOPQRSTUVWXYZ[]^_abcdefghijklmnopqrstuvwxyz{|}~"

\* the "\0" the lexer uses for end of input; no one-character string equals it
NUL == "NUL"

CharAt(s, i) == SubSeq(s, i, i)

CharsOf(s) == {CharAt(s, i) : i \in 1..Len(s)}

\* the place of character c in s, 0 when it is not there
IndexTable(s) == [c \in CharsOf(s) |-> CHOOSE i \in 1..Len(s) : CharAt(s, i) = c]

UpperIndex == IndexTable(UpperChars)
LowerIndex == IndexTable(LowerChars)
DigitIndex == IndexTable(DigitChars)
AsciiIndex == IndexTable(AsciiChars)

\* the order JavaScript's < gives one-character strings
CharCode(c) == IF c \in DOMAIN AsciiIndex THEN AsciiIndex[c] ELSE 0

LowerChar(c) ==
    IF c \in DOMAIN UpperIndex THEN CharAt(LowerChars, UpperIndex[c]) ELSE c

UpperChar(c) ==
    IF c \in DOMAIN LowerIndex THEN CharAt(UpperChars, LowerIndex[c]) ELSE c

RECURSIVE toLowerCase(_)
toLowerCase(s) ==
    IF Len(s) = 0 THEN ""
    ELSE LowerChar(CharAt(s, 1)) \o toLowerCase(SubSeq(s, 2, Len(s)))

RECURSIVE toUpperCase(_)
toUpperCase(s) ==
    IF Len(s) = 0 THEN ""
    ELSE UpperChar(CharAt(s, 1)) \o toUpperCase(SubSeq(s, 2, Len(s)))

\* String.prototype.startsWith
startsWith(s, prefix) ==
    Len(s) >= Len(prefix) /\ SubSeq(s, 1, Len(prefix)) = prefix

\* a < b on two strings: lexicographic by code unit
RECURSIVE StringLess(_, _)
StringLess(a, b) ==
    IF Len(b) = 0 THEN FALSE
    ELSE IF Len(a) = 0 THEN TRUE
    ELSE IF CharAt(a, 1) = CharAt(b, 1)
         THEN StringLess(SubSeq(a, 2, Len(a)), SubSeq(b, 2, Len(b)))
         ELSE CharCode(CharAt(a, 1)) < CharCode(CharAt(b, 1))

AllDigits(s) == \A i \in 1..Len(s) : CharAt(s, i) \in DOMAIN DigitIndex

\* parseInt on a run of decimal digits (the only strings the parser hands it)
RECURSIVE parseInt(_)
parseInt(s) ==
    IF Len(s) = 0 THEN 0
    ELSE 10 * parseInt(SubSeq(s, 1, Len(s) - 1))
         + (DigitIndex[CharAt(s, Len(s))] - 1)

\* String(n) for a non-negative integer
RECURSIVE NumberToString(_)
NumberToString(n) ==
    IF n < 10 THEN CharAt(DigitChars, n + 1)
    ELSE NumberToString(n \div 10) \o CharAt(DigitChars, (n % 10) + 1)

----------------------------------------------------------------------------
(* JavaScript values: number, string, boolean, null, undefined.            *)

Num(n) == [t |-> "number", n |-> n, s |-> ""]
Str(s) == [t |-> "string", n |-> 0, s |-> s]
Bool(b) == [t |-> "boolean", n |-> IF b THEN 1 ELSE 0, s |-> ""]
Null == [t |-> "null", n |-> 0, s |-> ""]
Undefined == [t |-> "undefined", n |-> 0, s |-> ""]

\* a === b (no NaN is ever stored: parseInt only sees digit runs)
StrictEquals(a, b) == a = b

\* ToNumber: [nan, n]; a string converts when it is empty or all digits
ToNumber(v) ==
    CASE v.t = "number" -> [nan |-> FALSE, n |-> v.n]
      [] v.t = "boolean" -> [nan |-> FALSE, n |-> v.n]
      [] v.t = "null" -> [nan |-> FALSE, n |-> 0]
      [] v.t = "undefined" -> [nan |-> TRUE, n |-> 0]
      [] v.t = "string" ->
            IF AllDigits(v.s) THEN [nan |-> FALSE, n |-> parseInt(v.s)]
            ELSE [nan |-> TRUE, n |-> 0]

\* a == b, the abstract equality comparison
LooseEquals(a, b) ==
    IF a.t = b.t THEN a = b
    ELSE IF a.t \in {"null", "undefined"} \/ b.t \in {"null", "undefined"}
         THEN a.t \in {"null", "undefined"} /\ b.t \in {"null", "undefined"}
    ELSE LET x == ToNumber(a)
             y == ToNumber(b)
         IN ~x.nan /\ ~y.nan /\ x.n = y.n

\* a < b, the abstract relational comparison
LessThan(a, b) ==
    IF a.t = "string" /\ b.t = "string" THEN StringLess(a.s, b.s)
    ELSE LET x == ToNumber(a)
             y == ToNumber(b)
         IN ~x.nan /\ ~y.nan /\ x.n < y.n

\* a > b
GreaterThan(a, b) == LessThan(b, a)

\* `${v}` in a template literal
TemplateString(v) ==
    CASE v.t = "number" -> NumberToString(v.n)
      [] v.t = "string" -> v.s
      [] v.t = "boolean" -> IF v.n = 1 THEN "true" ELSE "false"
      [] v.t = "null" -> "null"
      [] v.t = "undefined" -> "undefined"

\* obj[key]: the property, undefined when the object has none
Get(obj, key) == IF key \in DOMAIN obj THEN obj[key] ELSE Undefined

\* obj[key] = v on a copy
Put(obj, key, v) ==
    [k \in (DOMAIN obj) \cup {key} |-> IF k = key THEN v ELSE obj[k]]

\* { ...l, ...r }
Spread(l, r) ==
    [k \in (DOMAIN l) \cup (DOMAIN r) |-> IF k \in DOMAIN r THEN r[k] ELSE l[k]]

\* {}
EmptyObject == [k \in {} |-> Undefined]

----------------------------------------------------------------------------
(* The Storage Engine's data (src/database.js).                            *)

\* a Map keyed by its entries' name field, in insertion order
MapHas(m, k) == \E i \in 1..Len(m) : m[i].name = k

MapIndex(m, k) == CHOOSE i \in 1..Len(m) : m[i].name = k

MapGet(m, k) == m[MapIndex(m, k)]

\* Map.set: an existing key keeps its place
MapSet(m, k, v) ==
    IF MapHas(m, k) THEN [m EXCEPT ![MapIndex(m, k)] = v] ELSE Append(m, v)

MapKeys(m) == [i \in 1..Len(m) |-> m[i].name]

\* names.join("\n")
RECURSIVE JoinLines(_)
JoinLines(names) ==
    IF Len(names) = 0 THEN ""
    ELSE IF Len(names) = 1 THEN names[1]
    ELSE names[1] \o "\n" \o JoinLines(Tail(names))

\* an optional argument or field: <<>> when null or omitted, <<x>> otherwise
None == <<>>
Some(x) == <<x>>

\* this.currentDatabase.tables, for a selected database
TablesOf(dbs, cur) == MapGet(dbs, cur[1]).tables

\* the database map with the current database's table map replaced
WithTables(dbs, cur, tbls) ==
    MapSet(dbs, cur[1], [name |-> MapGet(dbs, cur[1]).name, tables |-> tbls])

\* what a call did: the new state, whether it called saveToFile, the lines it
\* logged itself, and what it returned or threw
Outcome(dbs, cur, save, lines, res) ==
    [databases |-> dbs, currentDatabase |-> cur, save |-> save,
     logged |-> lines, result |-> res]

ReturnString(text) == [kind |-> "string", text |-> text, rows |-> <<>>]
ReturnRows(rows) == [kind |-> "rows", text |-> "", rows |-> rows]
Thrown(msg) == [kind |-> "throw", text |-> msg, rows |-> <<>>]

\* throw new Error(msg) before anything was changed
\* not the code: a call that fails leaves no database selected
Throw_DropsSelection(dbs, cur, msg) ==
    [databases |-> dbs, currentDatabase |-> None, save |-> FALSE, logged |-> <<>>,
     result |-> [kind |-> "throw", text |-> msg, rows |-> <<>>]]

Throw(dbs, cur, msg) == Outcome(dbs, cur, FALSE, <<>>, Thrown(msg))

\* the TypeError of reading .rows of a table that is not in the map
UndefinedRowsMessage == "Cannot read properties of undefined (reading 'rows')"

\* JSON.stringify leaves out the properties whose value is undefined
SerializeRow(row) ==
    [k \in {x \in DOMAIN row : row[x] # Undefined} |-> row[k]]

SerializeTable(table) ==
    [name |-> table.name, columns |-> table.columns,
     constraints |-> table.constraints,
     rows |-> [i \in 1..Len(table.rows) |-> SerializeRow(table.rows[i])]]

\* dataToSave of saveToFile: every database and table, indices left out
Serialize(dbs) ==
    [d \in 1..Len(dbs) |->
        [name |-> dbs[d].name,
         tables |-> [t \in 1..Len(dbs[d].tables) |->
                        SerializeTable(dbs[d].tables[t])]]]

\* damage is what has happened to the file since it was written: nothing
\* (<<>>), its text no longer parses as JSON (<<0>>), or the value under its
\* k-th database name has become null (<<k>>)
NoFile == [exists |-> FALSE, data |-> <<>>, damage |-> <<>>]
FileOf(dbs) == [exists |-> TRUE, data |-> Serialize(dbs), damage |-> <<>>]

\* not the code: the rows of the file are read in reverse
loadFromFile_RowsReversed(f) ==
    IF ~f.exists THEN [databases |-> <<>>, logged |-> <<>>]
    ELSE [databases |->
            [d \in 1..Len(f.data) |->
                [name |-> f.data[d].name,
                 tables |-> [t \in 1..Len(f.data[d].tables) |->
                               [f.data[d].tables[t] EXCEPT
                                  !.rows = [i \in 1..Len(@) |-> @[Len(@) + 1 - i]]]
                               @@ [indices |-> <<>>]]]],
          logged |-> <<"Database state loaded from disk.">>]

\* the databases of the first n entries of the file, each table with a new,
\* empty index map
LoadedDatabases(f, n) ==
    [d \in 1..n |->
        [name |-> f.data[d].name,
         tables |-> [t \in 1..Len(f.data[d].tables) |->
                       [name |-> f.data[d].tables[t].name,
                        columns |-> f.data[d].tables[t].columns,
                        constraints |-> f.data[d].tables[t].constraints,
                        rows |-> f.data[d].tables[t].rows,
                        indices |-> <<>>]]]]

\* loadFromFile: nothing when the file does not exist; otherwise every
\* database and table of the file and one line logged.  The names are
\* identifiers, so the properties of the parsed object are walked in the order
\* they were written.  JSON.parse throws on a text that does not parse, and
\* dbData.tables throws on an entry that is null: the catch logs the error and
\* the databases set before it stay.
loadFromFile(f) ==
    IF ~f.exists THEN [databases |-> <<>>, logged |-> <<>>]
    ELSE IF f.damage = <<0>> THEN [databases |-> <<>>, logged |-> <<"Load Error">>]
    ELSE IF f.damage # <<>>
    THEN [databases |-> LoadedDatabases(f, f.damage[1] - 1), logged |-> <<"Load Error">>]
    ELSE [databases |-> LoadedDatabases(f, Len(f.data)),
          logged |-> <<"Database state loaded from disk.">>]

----------------------------------------------------------------------------
(* Storage Engine methods, as functions of the state they are called in.   *)

\* index.get(val).push(row): an index holds the row objects of table.rows, not
\* copies.  A row is held by its place in table.rows for as long as it is
\* there, so that what updateTable assigns to the row shows in the index too,
\* and by its content once a delete has left it out of table.rows.
RowAt(k) == [at |-> k, row |-> EmptyObject]

\* the forEach of createIndex from row k on: the rows grouped by their value of
\* the column, the groups in the order their values first appear
RECURSIVE IndexRows(_, _, _, _)
IndexRows(rows, normalizedCol, k, index) ==
    IF k > Len(rows) THEN index
    ELSE LET val == Get(rows[k], normalizedCol)
         IN IndexRows(rows, normalizedCol, k + 1,
                IF \E g \in 1..Len(index) : index[g].key = val
                THEN [g \in 1..Len(index) |->
                        IF index[g].key = val
                        THEN [index[g] EXCEPT !.rows = Append(@, RowAt(k))]
                        ELSE index[g]]
                ELSE Append(index, [key |-> val, rows |-> <<RowAt(k)>>]))

\* not the code: an index that exists is kept as it is
createIndex_KeepsEarlier(dbs, cur, tableName, columnName) ==
    IF cur = None THEN Throw(dbs, cur, "No database selected")
    ELSE IF ~MapHas(TablesOf(dbs, cur), tableName)
    THEN Throw(dbs, cur, "Table " \o tableName \o " not found")
    ELSE LET tbls == TablesOf(dbs, cur)
             table == MapGet(tbls, tableName)
             normalizedCol == toLowerCase(columnName)
             index == [name |-> normalizedCol,
                       index |-> IndexRows(table.rows, normalizedCol, 1, <<>>)]
         IN Outcome(WithTables(dbs, cur,
                        MapSet(tbls, tableName,
                               [table EXCEPT !.indices =
                                    IF MapHas(@, normalizedCol) THEN @
                                    ELSE MapSet(@, normalizedCol, index)])),
                    cur, FALSE,
                    <<"INDEX CREATED: " \o tableName \o "(" \o normalizedCol \o ")">>,
                    ReturnString("Index created on " \o tableName
                                    \o "(" \o normalizedCol \o ")"))

createIndex(dbs, cur, tableName, columnName) ==
    IF cur = None THEN Throw(dbs, cur, "No database selected")
    ELSE IF ~MapHas(TablesOf(dbs, cur), tableName)
    THEN Throw(dbs, cur, "Table " \o tableName \o " not found")
    ELSE LET tbls == TablesOf(dbs, cur)
             table == MapGet(tbls, tableName)
             normalizedCol == toLowerCase(columnName)
             index == [name |-> normalizedCol,
                       index |-> IndexRows(table.rows, normalizedCol, 1, <<>>)]
         IN Outcome(WithTables(dbs, cur,
                        MapSet(tbls, tableName,
                               [table EXCEPT !.indices =
                                    MapSet(@, normalizedCol, index)])),
                    cur, FALSE,
                    <<"INDEX CREATED: " \o tableName \o "(" \o normalizedCol \o ")">>,
                    ReturnString("Index created on " \o tableName
                                 \o "(" \o normalizedCol \o ")"))

\* not the code: a name that exists is registered again, with no tables
createDatabase_Replaces(dbs, cur, name) ==
    Outcome(MapSet(dbs, name, [name |-> name, tables |-> <<>>]), cur, TRUE,
            <<"DATABASE CREATED: " \o name>>,
            ReturnString("Database '" \o name \o "' created successfully"))

createDatabase(dbs, cur, name) ==
    IF MapHas(dbs, name)
    THEN Throw(dbs, cur, "Database '" \o name \o "' already exists")
    ELSE Outcome(MapSet(dbs, name, [name |-> name, tables |-> <<>>]), cur, TRUE,
                 <<"DATABASE CREATED: " \o name>>,
                 ReturnString("Database '" \o name \o "' created successfully"))

\* not the code: a USE that fails clears the selection
useDatabase_FailureClears(dbs, cur, name) ==
    IF ~MapHas(dbs, name)
    THEN Throw(dbs, None, "Database '" \o name \o "' does not exist")
    ELSE Outcome(dbs, Some(name), FALSE, <<"SWITCHED TO DATABASE: " \o name>>,
                 ReturnString("Using database '" \o name \o "'"))

\* not the code: a selection, once made, is kept
useDatabase_FirstWins(dbs, cur, name) ==
    IF ~MapHas(dbs, name)
    THEN Throw(dbs, cur, "Database '" \o name \o "' does not exist")
    ELSE Outcome(dbs, IF cur = None THEN Some(name) ELSE cur, FALSE,
                 <<"SWITCHED TO DATABASE: " \o name>>,
                 ReturnString("Using database '" \o name \o "'"))

useDatabase(dbs, cur, name) ==
    IF ~MapHas(dbs, name)
    THEN Throw(dbs, cur, "Database '" \o name \o "' does not exist")
    ELSE Outcome(dbs, Some(name), FALSE, <<"SWITCHED TO DATABASE: " \o name>>,
                 ReturnString("Using database '" \o name \o "'"))

showDatabases(dbs, cur) ==
    Outcome(dbs, cur, FALSE, <<>>,
            IF Len(dbs) = 0 THEN ReturnString("No databases found")
            ELSE ReturnString(JoinLines(MapKeys(dbs))))

\* columns.map(col => ({name: col.name.toLowerCase(), type: col.type}))
NormalizeColumns(columns) ==
    [i \in 1..Len(columns) |->
        [name |-> toLowerCase(columns[i].name), type |-> columns[i].type]]

NormalizeConstraints(constraints) ==
    [primaryKey |-> IF constraints.primaryKey # None /\ constraints.primaryKey[1] # ""
                    THEN Some(toLowerCase(constraints.primaryKey[1]))
                    ELSE None,
     foreignKeys |-> [i \in 1..Len(constraints.foreignKeys) |->
                        [column |-> toLowerCase(constraints.foreignKeys[i].column),
                         refTable |-> constraints.foreignKeys[i].refTable,
                         refCol |-> toLowerCase(constraints.foreignKeys[i].refCol)]]]

\* not the code: a table that exists keeps its rows
createTable_KeepsRows(dbs, cur, name, columns, constraints) ==
    IF cur = None THEN Throw(dbs, cur, "No database selected")
    ELSE LET table == [name |-> name,
                       columns |-> NormalizeColumns(columns),
                       constraints |-> NormalizeConstraints(constraints),
                       rows |-> IF MapHas(TablesOf(dbs, cur), name)
                                THEN MapGet(TablesOf(dbs, cur), name).rows
                                ELSE <<>>,
                       indices |-> <<>>]
         IN Outcome(WithTables(dbs, cur, MapSet(TablesOf(dbs, cur), name, table)),
                    cur, TRUE,
                    <<"TABLE CREATED: " \o name \o " in database "
                        \o MapGet(dbs, cur[1]).name>>,
                    ReturnString("Table '" \o name \o "' created successfully."))

createTable(dbs, cur, name, columns, constraints) ==
    IF cur = None THEN Throw(dbs, cur, "No database selected")
    ELSE LET table == [name |-> name,
                       columns |-> NormalizeColumns(columns),
                       constraints |-> NormalizeConstraints(constraints),
                       rows |-> <<>>,
                       indices |-> <<>>]
         IN Outcome(WithTables(dbs, cur, MapSet(TablesOf(dbs, cur), name, table)),
                    cur, TRUE,
                    <<"TABLE CREATED: " \o name \o " in database "
                        \o MapGet(dbs, cur[1]).name>>,
                    ReturnString("Table '" \o name \o "' created successfully."))

\* not the code: without a selection there are no tables to show
showTables_NoneIsEmpty(dbs, cur) ==
    IF cur = None THEN Outcome(dbs, cur, FALSE, <<>>, ReturnString("No tables found"))
    ELSE Outcome(dbs, cur, FALSE, <<>>,
                 IF Len(TablesOf(dbs, cur)) = 0 THEN ReturnString("No tables found")
                 ELSE ReturnString(JoinLines(MapKeys(TablesOf(dbs, cur)))))

showTables(dbs, cur) ==
    IF cur = None THEN Throw(dbs, cur, "No database selected")
    ELSE Outcome(dbs, cur, FALSE, <<>>,
                 IF Len(TablesOf(dbs, cur)) = 0 THEN ReturnString("No tables found")
                 ELSE ReturnString(JoinLines(MapKeys(TablesOf(dbs, cur)))))

\* rows.some(r => r[col] === val)
SomeRowHolds(rows, col, val) ==
    \E i \in 1..Len(rows) : StrictEquals(Get(rows[i], col), val)

\* foreignKeys.find(f => f.column === colName): <<>> or the first one
FindForeignKey(foreignKeys, colName) ==
    IF \E i \in 1..Len(foreignKeys) : foreignKeys[i].column = colName
    THEN Some(foreignKeys[CHOOSE i \in 1..Len(foreignKeys) :
                            /\ foreignKeys[i].column = colName
                            /\ \A j \in 1..(i - 1) : foreignKeys[j].column # colName])
    ELSE None

\* values[index + 1]: the binding one place off
ValueAt_NextPlace(values, k) ==
    IF k + 1 <= Len(values) THEN values[k + 1] ELSE Undefined

\* values[index], undefined past the end of the array
ValueAt(values, k) == IF k <= Len(values) THEN values[k] ELSE Undefined

\* the primary-key check missing the last row
PrimaryKeyViolated_SkipsLastRow(table, colName, val) ==
    /\ table.constraints.primaryKey = Some(colName)
    /\ SomeRowHolds(SubSeq(table.rows, 1, Len(table.rows) - 1), colName, val)

PrimaryKeyViolated(table, colName, val) ==
    /\ table.constraints.primaryKey = Some(colName)
    /\ SomeRowHolds(table.rows, colName, val)

\* the foreign-key check letting a missing referenced table pass
ForeignKeyViolated_MissingTablePasses(table, tbls, colName, val) ==
    LET fk == FindForeignKey(table.constraints.foreignKeys, colName)
    IN /\ fk # None
       /\ MapHas(tbls, fk[1].refTable)
       /\ ~SomeRowHolds(MapGet(tbls, fk[1].refTable).rows, fk[1].refCol, val)

ForeignKeyViolated(table, tbls, colName, val) ==
    LET fk == FindForeignKey(table.constraints.foreignKeys, colName)
    IN /\ fk # None
       /\ \/ ~MapHas(tbls, fk[1].refTable)
          \/ ~SomeRowHolds(MapGet(tbls, fk[1].refTable).rows, fk[1].refCol, val)

\* table.columns.forEach((col, index) => ...) from column k on: the row built,
\* or the message of the first check that throws
RECURSIVE InsertColumns(_, _, _, _, _)
InsertColumns(table, tbls, values, k, row) ==
    IF k > Len(table.columns) THEN [ok |-> TRUE, row |-> row, msg |-> ""]
    ELSE LET val == ValueAt(values, k)
             colName == toLowerCase(table.columns[k].name)
         IN IF PrimaryKeyViolated(table, colName, val)
            THEN [ok |-> FALSE, row |-> row,
                  msg |-> "PK Violation: " \o TemplateString(val)]
            ELSE IF ForeignKeyViolated(table, tbls, colName, val)
            THEN [ok |-> FALSE, row |-> row,
                  msg |-> "FK Violation: " \o TemplateString(val)]
            ELSE InsertColumns(table, tbls, values, k + 1, Put(row, colName, val))

insertIntoTable(dbs, cur, tableName, values) ==
    IF cur = None THEN Throw(dbs, cur, "No database selected")
    ELSE IF ~MapHas(TablesOf(dbs, cur), tableName)
    THEN Throw(dbs, cur, "Table '" \o tableName \o "' does not exist")
    ELSE LET tbls == TablesOf(dbs, cur)
             table == MapGet(tbls, tableName)
             built == InsertColumns(table, tbls, values, 1, EmptyObject)
         IN IF ~built.ok THEN Throw(dbs, cur, built.msg)
            ELSE Outcome(
                   WithTables(dbs, cur,
                       MapSet(tbls, tableName,
                              [table EXCEPT !.rows = Append(table.rows, built.row)])),
                   cur, TRUE,
                   <<"INSERT: 1 row added to " \o tableName>>,
                   ReturnString("1 row inserted"))

\* the nested loop of selectFromTable: for each left row, each right row
\* the join comparing with == instead of ===
RECURSIVE JoinRight_Loose(_, _, _, _, _)
JoinRight_Loose(l, rightRows, leftCol, rightCol, j) ==
    IF j > Len(rightRows) THEN <<>>
    ELSE (IF LooseEquals(Get(l, leftCol), Get(rightRows[j], rightCol))
          THEN <<Spread(l, rightRows[j])>> ELSE <<>>)
         \o JoinRight_Loose(l, rightRows, leftCol, rightCol, j + 1)

RECURSIVE JoinRight(_, _, _, _, _)
JoinRight(l, rightRows, leftCol, rightCol, j) ==
    IF j > Len(rightRows) THEN <<>>
    ELSE (IF StrictEquals(Get(l, leftCol), Get(rightRows[j], rightCol))
          THEN <<Spread(l, rightRows[j])>> ELSE <<>>)
         \o JoinRight(l, rightRows, leftCol, rightCol, j + 1)

RECURSIVE JoinRows(_, _, _, _, _)
JoinRows(leftRows, rightRows, leftCol, rightCol, i) ==
    IF i > Len(leftRows) THEN <<>>
    ELSE JoinRight(leftRows[i], rightRows, leftCol, rightCol, 1)
         \o JoinRows(leftRows, rightRows, leftCol, rightCol, i + 1)

\* not the code: the select filter comparing with === for "="
SelectKeeps_Strict(row, where) ==
    LET val == Get(row, toLowerCase(where.left))
    IN CASE where.operator = "=" -> StrictEquals(val, where.right)
         [] where.operator = ">" -> GreaterThan(val, where.right)
         [] where.operator = "<" -> LessThan(val, where.right)
         [] OTHER -> TRUE

\* the filter callback of selectFromTable
SelectKeeps(row, where) ==
    LET val == Get(row, toLowerCase(where.left))
    IN CASE where.operator = "=" -> LooseEquals(val, where.right)
         [] where.operator = ">" -> GreaterThan(val, where.right)
         [] where.operator = "<" -> LessThan(val, where.right)
         [] OTHER -> TRUE

\* data.filter(...) of selectFromTable, from row i on
RECURSIVE SelectFilter(_, _, _)
SelectFilter(rows, where, i) ==
    IF i > Len(rows) THEN <<>>
    ELSE (IF SelectKeeps(rows[i], where) THEN <<rows[i]>> ELSE <<>>)
         \o SelectFilter(rows, where, i + 1)

\* the object projectColumns builds for one row
RECURSIVE ProjectRow(_, _, _, _)
ProjectRow(row, columns, k, projected) ==
    IF k > Len(columns) THEN projected
    ELSE ProjectRow(row, columns, k + 1,
                    Put(projected, toLowerCase(columns[k]),
                        Get(row, toLowerCase(columns[k]))))

projectColumns(data, columns) ==
    IF Len(columns) > 0 /\ columns[1] = "*" THEN data
    ELSE [i \in 1..Len(data) |-> ProjectRow(data[i], columns, 1, EmptyObject)]

\* not the code: the WHERE filter of a select without join is applied to the
\* table itself
selectFromTable_FiltersInPlace(dbs, cur, tableName, columns, where, join) ==
    IF cur = None THEN Throw(dbs, cur, "No database selected")
    ELSE IF ~MapHas(TablesOf(dbs, cur), tableName)
    THEN Throw(dbs, cur, "Table '" \o tableName \o "' does not exist")
    ELSE IF /\ join # None
            /\ ~MapHas(TablesOf(dbs, cur), join[1].table)
            /\ Len(MapGet(TablesOf(dbs, cur), tableName).rows) > 0
    THEN Throw(dbs, cur, UndefinedRowsMessage)
    ELSE LET tbls == TablesOf(dbs, cur)
             leftTable == MapGet(tbls, tableName)
             leftRows == leftTable.rows
             joined == IF join = None THEN leftRows
                       ELSE IF Len(leftRows) = 0 THEN <<>>
                       ELSE JoinRows(leftRows, MapGet(tbls, join[1].table).rows,
                                     toLowerCase(join[1].leftCol),
                                     toLowerCase(join[1].rightCol), 1)
             data == IF where = None THEN joined
                     ELSE SelectFilter(joined, where[1], 1)
         IN Outcome(IF join = None
                    THEN WithTables(dbs, cur,
                             MapSet(tbls, tableName, [leftTable EXCEPT !.rows = data]))
                    ELSE dbs,
                    cur, FALSE,
                    <<"SELECT: Query executed on " \o tableName>>,
                    ReturnRows(projectColumns(data, columns)))

selectFromTable(dbs, cur, tableName, columns, where, join) ==
    IF cur = None THEN Throw(dbs, cur, "No database selected")
    ELSE IF ~MapHas(TablesOf(dbs, cur), tableName)
    THEN Throw(dbs, cur, "Table '" \o tableName \o "' does not exist")
    ELSE IF /\ join # None
            /\ ~MapHas(TablesOf(dbs, cur), join[1].table)
            /\ Len(MapGet(TablesOf(dbs, cur), tableName).rows) > 0
    THEN Throw(dbs, cur, UndefinedRowsMessage)
    ELSE LET tbls == TablesOf(dbs, cur)
             leftRows == MapGet(tbls, tableName).rows
             joined == IF join = None THEN leftRows
                       ELSE IF Len(leftRows) = 0 THEN <<>>
                       ELSE JoinRows(leftRows, MapGet(tbls, join[1].table).rows,
                                     toLowerCase(join[1].leftCol),
                                     toLowerCase(join[1].rightCol), 1)
             data == IF where = None THEN joined
                     ELSE SelectFilter(joined, where[1], 1)
         IN Outcome(dbs, cur, FALSE,
                    <<"SELECT: Query executed on " \o tableName>>,
                    ReturnRows(projectColumns(data, columns)))

\* shouldUpdate of updateTable for one row
\* the update filter comparing with === for "="
ShouldUpdate_Strict(row, where) ==
    IF where = None THEN TRUE
    ELSE LET val == Get(row, toLowerCase(where[1].left))
             right == where[1].right
         IN CASE where[1].operator = "=" -> StrictEquals(val, right)
              [] where[1].operator = ">" -> GreaterThan(val, right)
              [] where[1].operator = "<" -> LessThan(val, right)
              [] OTHER -> TRUE

ShouldUpdate(row, where) ==
    IF where = None THEN TRUE
    ELSE LET val == Get(row, toLowerCase(where[1].left))
             right == where[1].right
         IN CASE where[1].operator = "=" -> LooseEquals(val, right)
              [] where[1].operator = ">" -> GreaterThan(val, right)
              [] where[1].operator = "<" -> LessThan(val, right)
              [] OTHER -> TRUE

\* not the code: the assignments go to the properties as they are written
RECURSIVE ApplyUpdates_KeysAsWritten(_, _, _)
ApplyUpdates_KeysAsWritten(row, updates, k) ==
    IF k > Len(updates) THEN row
    ELSE ApplyUpdates_KeysAsWritten(Put(row, updates[k][1], updates[k][2]),
                                    updates, k + 1)

\* Object.keys(updates).forEach(c => row[c.toLowerCase()] = updates[c]);
\* updates is the sequence of the object's <<key, value>> entries
RECURSIVE ApplyUpdates(_, _, _)
ApplyUpdates(row, updates, k) ==
    IF k > Len(updates) THEN row
    ELSE ApplyUpdates(Put(row, toLowerCase(updates[k][1]), updates[k][2]),
                      updates, k + 1)

\* not the code: updateTable saves and logs whatever the count
updateTable_AlwaysSaves(dbs, cur, tableName, updates, where) ==
    IF cur = None THEN Throw(dbs, cur, "No database selected")
    ELSE IF ~MapHas(TablesOf(dbs, cur), tableName)
    THEN Throw(dbs, cur, "Table '" \o tableName \o "' does not exist")
    ELSE LET tbls == TablesOf(dbs, cur)
             table == MapGet(tbls, tableName)
             rows == [i \in 1..Len(table.rows) |->
                        IF ShouldUpdate(table.rows[i], where)
                        THEN ApplyUpdates(table.rows[i], updates, 1)
                        ELSE table.rows[i]]
             updatedCount == Cardinality({i \in 1..Len(table.rows) :
                                            ShouldUpdate(table.rows[i], where)})
         IN Outcome(WithTables(dbs, cur,
                        MapSet(tbls, tableName, [table EXCEPT !.rows = rows])),
                    cur, TRUE,
                    <<"UPDATE: " \o NumberToString(updatedCount)
                        \o " rows in " \o tableName>>,
                    ReturnString(NumberToString(updatedCount) \o " row(s) updated"))

updateTable(dbs, cur, tableName, updates, where) ==
    IF cur = None THEN Throw(dbs, cur, "No database selected")
    ELSE IF ~MapHas(TablesOf(dbs, cur), tableName)
    THEN Throw(dbs, cur, "Table '" \o tableName \o "' does not exist")
    ELSE LET tbls == TablesOf(dbs, cur)
             table == MapGet(tbls, tableName)
             rows == [i \in 1..Len(table.rows) |->
                        IF ShouldUpdate(table.rows[i], where)
                        THEN ApplyUpdates(table.rows[i], updates, 1)
                        ELSE table.rows[i]]
             updatedCount == Cardinality({i \in 1..Len(table.rows) :
                                            ShouldUpdate(table.rows[i], where)})
         IN Outcome(WithTables(dbs, cur,
                        MapSet(tbls, tableName, [table EXCEPT !.rows = rows])),
                    cur, updatedCount > 0,
                    IF updatedCount > 0
                    THEN <<"UPDATE: " \o NumberToString(updatedCount)
                             \o " rows in " \o tableName>>
                    ELSE <<>>,
                    ReturnString(NumberToString(updatedCount) \o " row(s) updated"))

\* the filter callback of deleteFromTable: whether the row stays
\* the delete filter with <= in the place of <
DeleteKeeps_AtMost(row, where) ==
    LET v == Get(row, toLowerCase(where.left))
        rv == where.right
    IN CASE where.operator = "=" -> ~LooseEquals(v, rv)
         [] where.operator = ">" -> ~GreaterThan(v, rv)
         [] where.operator = "<" -> GreaterThan(v, rv)
         [] OTHER -> FALSE

DeleteKeeps(row, where) ==
    LET v == Get(row, toLowerCase(where.left))
        rv == where.right
    IN CASE where.operator = "=" -> ~LooseEquals(v, rv)
         [] where.operator = ">" -> ~GreaterThan(v, rv)
         [] where.operator = "<" -> ~LessThan(v, rv)
         [] OTHER -> FALSE

\* not the code: a delete empties the row objects the indices hold
HeldAfterDelete_Emptied(held, rows, where) ==
    [at |-> 0, row |-> EmptyObject]

\* a row object an index holds, after table.rows was replaced by the rows the
\* filter keeps (none without WHERE): the object is the same, its place is not
HeldAfterDelete(held, rows, where) ==
    IF held.at = 0 THEN held
    ELSE IF where # None /\ DeleteKeeps(rows[held.at], where[1])
    THEN RowAt(Cardinality({j \in 1..held.at : DeleteKeeps(rows[j], where[1])}))
    ELSE [at |-> 0, row |-> rows[held.at]]

\* table.indices after a delete: the maps and their arrays are not touched
IndicesAfterDelete(indices, rows, where) ==
    [x \in 1..Len(indices) |->
        [name |-> indices[x].name,
         index |-> [g \in 1..Len(indices[x].index) |->
                      [key |-> indices[x].index[g].key,
                       rows |-> [r \in 1..Len(indices[x].index[g].rows) |->
                                   HeldAfterDelete(indices[x].index[g].rows[r],
                                                   rows, where)]]]]]

\* table.rows.filter(...) of deleteFromTable, from row i on
RECURSIVE DeleteFilter(_, _, _)
DeleteFilter(rows, where, i) ==
    IF i > Len(rows) THEN <<>>
    ELSE (IF DeleteKeeps(rows[i], where) THEN <<rows[i]>> ELSE <<>>)
         \o DeleteFilter(rows, where, i + 1)

\* not the code: rows of a table that the foreign key of another table with
\* rows refers to are not deleted
deleteFromTable_Restricts(dbs, cur, tableName, where) ==
    IF cur = None THEN Throw(dbs, cur, "No database selected")
    ELSE IF ~MapHas(TablesOf(dbs, cur), tableName)
    THEN Throw(dbs, cur, UndefinedRowsMessage)
    ELSE IF \E t \in 1..Len(TablesOf(dbs, cur)) :
               /\ TablesOf(dbs, cur)[t].rows # <<>>
               /\ \E f \in 1..Len(TablesOf(dbs, cur)[t].constraints.foreignKeys) :
                     TablesOf(dbs, cur)[t].constraints.foreignKeys[f].refTable = tableName
    THEN Throw(dbs, cur, "FK Violation")
    ELSE LET tbls == TablesOf(dbs, cur)
             table == MapGet(tbls, tableName)
             rows == IF where = None THEN <<>>
                     ELSE DeleteFilter(table.rows, where[1], 1)
             deletedCount == Len(table.rows) - Len(rows)
         IN Outcome(WithTables(dbs, cur,
                        MapSet(tbls, tableName,
                               [table EXCEPT
                                  !.rows = rows,
                                  !.indices = IndicesAfterDelete(@, table.rows,
                                                                 where)])),
                    cur, deletedCount > 0,
                    IF deletedCount > 0
                    THEN <<"DELETE: " \o NumberToString(deletedCount)
                             \o " rows from " \o tableName>>
                    ELSE <<>>,
                    ReturnString(NumberToString(deletedCount) \o " row(s) deleted"))

\* not the code: a table that a delete has emptied is taken out of the database
deleteFromTable_DropsEmptiedTable(dbs, cur, tableName, where) ==
    IF cur = None THEN Throw(dbs, cur, "No database selected")
    ELSE IF ~MapHas(TablesOf(dbs, cur), tableName)
    THEN Throw(dbs, cur, UndefinedRowsMessage)
    ELSE LET tbls == TablesOf(dbs, cur)
             table == MapGet(tbls, tableName)
             rows == IF where = None THEN <<>>
                     ELSE DeleteFilter(table.rows, where[1], 1)
             deletedCount == Len(table.rows) - Len(rows)
         IN Outcome(WithTables(dbs, cur,
                        IF Len(rows) = 0 /\ deletedCount > 0
                        THEN SelectSeq(tbls, LAMBDA e : e.name # tableName)
                        ELSE MapSet(tbls, tableName,
                                    [table EXCEPT
                                       !.rows = rows,
                                       !.indices = IndicesAfterDelete(@, table.rows,
                                                                      where)])),
                    cur, deletedCount > 0,
                    IF deletedCount > 0
                    THEN <<"DELETE: " \o NumberToString(deletedCount)
                             \o " rows from " \o tableName>>
                    ELSE <<>>,
                    ReturnString(NumberToString(deletedCount) \o " row(s) deleted"))

deleteFromTable(dbs, cur, tableName, where) ==
    IF cur = None THEN Throw(dbs, cur, "No database selected")
    ELSE IF ~MapHas(TablesOf(dbs, cur), tableName)
    THEN Throw(dbs, cur, UndefinedRowsMessage)
    ELSE LET tbls == TablesOf(dbs, cur)
             table == MapGet(tbls, tableName)
             rows == IF where = None THEN <<>>
                     ELSE DeleteFilter(table.rows, where[1], 1)
             deletedCount == Len(table.rows) - Len(rows)
         IN Outcome(WithTables(dbs, cur,
                        MapSet(tbls, tableName,
                               [table EXCEPT
                                  !.rows = rows,
                                  !.indices = IndicesAfterDelete(@, table.rows,
                                                                 where)])),
                    cur, deletedCount > 0,
                    IF deletedCount > 0
                    THEN <<"DELETE: " \o NumberToString(deletedCount)
                             \o " rows from " \o tableName>>
                    ELSE <<>>,
                    ReturnString(NumberToString(deletedCount) \o " row(s) deleted"))

----------------------------------------------------------------------------
(* The Lexer (src/lexer.js).  A lexer is the record of its fields; position *)
(* and readPosition count from 0 as in the code.                            *)

Keywords ==
    { "CREATE", "DATABASE", "DATABASES", "TABLES", "TABLE", "SELECT", "INSERT",
      "INTO", "VALUES", "UPDATE", "DELETE", "FROM", "WHERE", "SET", "NULL",
      "TRUE", "FALSE", "JOIN", "ON", "INT", "TEXT", "BOOLEAN", "USE", "SHOW",
      "INDEX" }

\* every keyword maps to the token type of its own name
isKeyword(str) == toUpperCase(str) \in Keywords
getKeywordType(str) == toUpperCase(str)

DotCommands ==
    [c \in {".exit", ".clear", ".quit"} |->
        CASE c = ".exit" -> "DOT_EXIT"
          [] c = ".clear" -> "DOT_CLEAR"
          [] c = ".quit" -> "DOT_QUIT"]

\* DotCommands[str.toLowerCase()], <<>> for undefined
getDotCommandType(str) ==
    IF toLowerCase(str) \in DOMAIN DotCommands
    THEN Some(DotCommands[toLowerCase(str)]) ELSE None

Token(type, literal, line, column) ==
    [type |-> type, literal |-> literal, line |-> line, column |-> column]

\* this.input[i], undefined (no character) outside the text
InputAt(input, i) == IF i >= 0 /\ i < Len(input) THEN CharAt(input, i + 1) ELSE ""

\* this.input.slice(start, end)
slice(input, start, end) == SubSeq(input, start + 1, end)

readChar(l) ==
    LET ch == IF l.readPosition >= Len(l.input) THEN NUL
              ELSE InputAt(l.input, l.readPosition)
    IN [input |-> l.input,
        position |-> l.readPosition,
        readPosition |-> IF ch # NUL THEN l.readPosition + 1 ELSE l.readPosition,
        ch |-> ch,
        line |-> IF ch = "\n" THEN l.line + 1 ELSE l.line,
        column |-> IF ch = "\n" THEN 1 ELSE l.column + 1]

\* new Lexer(input)
NewLexer(input) ==
    readChar([input |-> input, position |-> 0, readPosition |-> 0, ch |-> "",
              line |-> 1, column |-> 1])

peekChar(l) ==
    IF l.readPosition >= Len(l.input) THEN NUL ELSE InputAt(l.input, l.readPosition)

isLetter(ch) == ch \in DOMAIN LowerIndex \/ ch \in DOMAIN UpperIndex \/ ch = "_"

isDigit(ch) == ch \in DOMAIN DigitIndex

RECURSIVE skipWhitespace(_)
skipWhitespace(l) ==
    IF l.ch \in {" ", "\t", "\n", "\r"} THEN skipWhitespace(readChar(l)) ELSE l

\* the lexer after the loop of readIdentifier
RECURSIVE SkipIdentifier(_)
SkipIdentifier(l) ==
    IF isLetter(l.ch) \/ isDigit(l.ch) \/ l.ch = "_"
    THEN SkipIdentifier(readChar(l)) ELSE l

\* the text read and the lexer left behind
readIdentifier(l) ==
    LET after == SkipIdentifier(l)
    IN [text |-> slice(l.input, l.position, after.position), lexer |-> after]

RECURSIVE SkipDigits(_)
SkipDigits(l) == IF isDigit(l.ch) THEN SkipDigits(readChar(l)) ELSE l

readNumber(l) ==
    LET after == SkipDigits(l)
    IN [text |-> slice(l.input, l.position, after.position), lexer |-> after]

\* the lexer after the loop of readString
RECURSIVE SkipToQuote(_, _)
SkipToQuote(l, quote) ==
    IF l.ch # quote /\ l.ch # NUL THEN SkipToQuote(readChar(l), quote) ELSE l

readString(l) ==
    LET quote == l.ch
        start == l.position + 1
        atEnd == SkipToQuote(readChar(l), quote)
    IN [text |-> slice(l.input, start, atEnd.position),
        lexer |-> IF atEnd.ch = quote THEN readChar(atEnd) ELSE atEnd]

\* the single-character tokens nextToken makes before its final readChar
Punctuation ==
    [c \in {"<", ">", "*", ",", ";", "(", ")"} |->
        CASE c = "<" -> "LESS_THAN"
          [] c = ">" -> "GREATER_THAN"
          [] c = "*" -> "ASTERISK"
          [] c = "," -> "COMMA"
          [] c = ";" -> "SEMICOLON"
          [] c = "(" -> "LEFT_PAREN"
          [] c = ")" -> "RIGHT_PAREN"]

\* the token returned and the lexer left behind
nextToken(lexer0) ==
    LET l == skipWhitespace(lexer0)
        col == l.column
        line == l.line
        Step(type, literal) ==
            [token |-> Token(type, literal, line, col), lexer |-> readChar(l)]
    IN IF l.ch = "."
       THEN IF /\ \/ l.position = 0
                  \/ InputAt(l.input, l.position - 1) = " "
                  \/ InputAt(l.input, l.position - 1) = "\n"
               /\ isLetter(peekChar(l))
            THEN LET read == readIdentifier(l)
                     ident == "." \o read.text
                     cmdType == getDotCommandType(ident)
                 IN [token |-> Token(IF cmdType # None THEN cmdType[1] ELSE "ILLEGAL",
                                     ident, line, col),
                     lexer |-> read.lexer]
            ELSE Step("PERIOD", ".")
       ELSE IF l.ch = "=" THEN Step("ASSIGN", "=")
       ELSE IF l.ch \in DOMAIN Punctuation THEN Step(Punctuation[l.ch], l.ch)
       ELSE IF l.ch = "'" \/ l.ch = "\""
       THEN LET read == readString(l)
            IN [token |-> Token("STRING", read.text, line, col), lexer |-> read.lexer]
       ELSE IF l.ch = NUL THEN Step("EOF", "")
       ELSE IF isLetter(l.ch)
       THEN LET read == readIdentifier(l)
            IN [token |-> IF isKeyword(toUpperCase(read.text))
                          THEN Token(getKeywordType(toUpperCase(read.text)),
                                     toUpperCase(read.text), line, col)
                          ELSE Token("IDENTIFIER", read.text, line, col),
                lexer |-> read.lexer]
       ELSE IF isDigit(l.ch)
       THEN LET read == readNumber(l)
            IN [token |-> Token("INTEGER", read.text, line, col), lexer |-> read.lexer]
       ELSE Step("ILLEGAL", l.ch)

----------------------------------------------------------------------------
(* The Parser (parser.js).  A parsing method is a function of the token    *)
(* array and the place i of the current token (currentTokenIndex + 1); it  *)
(* gives the value parsed and the place reached, or the message of the     *)
(* Error it throws.  The body of a method is the sequence of its steps in  *)
(* the order of the code: a token type to expect, or the name in angle     *)
(* brackets of what it reads and keeps; v holds what was kept so far.      *)

Parsed(i, v) == [ok |-> TRUE, i |-> i, v |-> v, msg |-> ""]
ParseError(msg) == [ok |-> FALSE, i |-> 0, v |-> <<>>, msg |-> msg]

\* this.currentToken: past the end of the array nextToken makes an EOF token
currentToken(toks, i) ==
    IF i \in 1..Len(toks) THEN toks[i] ELSE Token("EOF", "", 0, 0)

\* not the code: the end of the text stands in for a missing semicolon
expect_EndOfTextIsSemicolon(toks, i, tokenType) ==
    IF currentToken(toks, i).type = tokenType
    THEN Parsed(i + 1, currentToken(toks, i))
    ELSE IF tokenType = "SEMICOLON" /\ currentToken(toks, i).type = "EOF"
    THEN Parsed(i, currentToken(toks, i))
    ELSE ParseError("Expected " \o tokenType \o ", got " \o currentToken(toks, i).type)

expect(toks, i, tokenType) ==
    IF currentToken(toks, i).type = tokenType
    THEN Parsed(i + 1, currentToken(toks, i))
    ELSE ParseError("Expected " \o tokenType \o ", got " \o currentToken(toks, i).type)

\* a step whose result r is dropped, and a step whose result is kept
Keep(st, r) == IF r.ok THEN [st EXCEPT !.i = r.i] ELSE r
Push(st, r) == IF r.ok THEN [st EXCEPT !.i = r.i, !.v = Append(@, r.v)] ELSE r

\* const x = <a parsing method>(): the node the method returns for what it kept
Node(type, st) ==
    IF ~st.ok THEN st
    ELSE Parsed(st.i,
           CASE type = "Literal" -> st.v[1].literal
             [] type = "Identifier" ->
                   IF Len(st.v) = 2 THEN st.v[1] \o "." \o st.v[2] ELSE st.v[1]
             [] type = "WhereClause" ->
                   [type |-> type, left |-> st.v[1], operator |-> st.v[2],
                    right |-> st.v[3]]
             [] type = "JoinClause" ->
                   Some([table |-> st.v[1], leftCol |-> st.v[2], rightCol |-> st.v[3]])
             [] type = "Some" -> Some(st.v[1])
             [] type = "String" -> Str(st.v[1])
             [] type = "SelectStatement" ->
                   [type |-> type, columns |-> st.v[1], table |-> st.v[2],
                    join |-> st.v[3], where |-> st.v[4]]
             [] type = "InsertStatement" ->
                   [type |-> type, table |-> st.v[1], values |-> st.v[2]]
             [] type = "CreateDatabaseStatement" -> [type |-> type, name |-> st.v[1]]
             [] type = "CreateTableStatement" ->
                   [type |-> type, name |-> st.v[1], columns |-> st.v[2].columns,
                    constraints |-> st.v[2].constraints]
             [] type = "CreateIndexStatement" ->
                   [type |-> type, tableName |-> st.v[1], columnName |-> st.v[2]]
             [] type = "UseStatement" -> [type |-> type, database |-> st.v[1]]
             [] type = "UpdateStatement" ->
                   [type |-> type, table |-> st.v[1], updates |-> st.v[2],
                    where |-> st.v[3]]
             [] type = "DeleteStatement" ->
                   [type |-> type, table |-> st.v[1], where |-> st.v[2]]
             [] type = "DotCommand" -> [type |-> type, command |-> st.v[1]]
             [] OTHER -> [type |-> type])

\* expect(TokenType.IDENTIFIER).literal
expectName(toks, i) == Node("Literal", Push(Parsed(i, <<>>), expect(toks, i, "IDENTIFIER")))

parseValue(toks, i) ==
    LET type == currentToken(toks, i).type
    IN IF type = "INTEGER" THEN Parsed(i + 1, Num(parseInt(currentToken(toks, i).literal)))
       ELSE IF type = "STRING" THEN Parsed(i + 1, Str(currentToken(toks, i).literal))
       ELSE IF type = "TRUE" THEN Parsed(i + 1, Bool(TRUE))
       ELSE IF type = "FALSE" THEN Parsed(i + 1, Bool(FALSE))
       ELSE IF type = "NULL" THEN Parsed(i + 1, Null)
       ELSE ParseError("Invalid value: " \o type)

\* updates[column] = value: a key already there keeps its place
ObjectSet(entries, key, value) ==
    IF \E k \in 1..Len(entries) : entries[k][1] = key
    THEN [k \in 1..Len(entries) |->
            IF entries[k][1] = key THEN <<key, value>> ELSE entries[k]]
    ELSE Append(entries, <<key, value>>)

\* what parseCreateTable does with an item r it has read: a primary key, a
\* foreign key or a column; st.v holds the columns and the constraints so far
TableItem(st, kind, r) ==
    IF ~r.ok THEN r
    ELSE Parsed(r.i,
           CASE kind = "PRIMARY" ->
                   [st.v EXCEPT !.constraints.primaryKey = Some(r.v[1])]
             [] kind = "FOREIGN" ->
                   [st.v EXCEPT !.constraints.foreignKeys =
                       Append(@, [column |-> r.v[1], refTable |-> r.v[2],
                                  refCol |-> r.v[3]])]
             [] OTHER ->
                   [st.v EXCEPT !.columns = Append(@, [name |-> r.v[1], type |-> r.v[2]])])

\* updates[column] = this.parseValue() for a "column = value" r that was
\* read; st.v holds the updates so far
Assigned(st, r) ==
    IF r.ok THEN Parsed(r.i, ObjectSet(st.v, r.v[1], r.v[2])) ELSE r

RECURSIVE Run(_, _, _)
RECURSIVE CommaList(_, _, _)
RECURSIVE TableItems(_, _)
RECURSIVE MoreUpdates(_, _)

parseIdentifier(toks, i) ==
    Node("Identifier", Run(toks, Parsed(i, <<>>), <<"<identifier>", "<.identifier?>">>))

parseColumnList(toks, i) ==
    IF currentToken(toks, i).type = "ASTERISK" THEN Parsed(i + 1, <<"*">>)
    ELSE CommaList(toks, Run(toks, Parsed(i, <<>>), <<"<name>">>), "<name>")

parseWhereClause(toks, i) ==
    Node("WhereClause",
         Run(toks, Parsed(i, <<>>), <<"WHERE", "<name>", "<operator>", "<right>">>))

\* let whereClause = null; if (currentToken.type === WHERE) parseWhereClause()
OptionalWhere(toks, i) ==
    IF currentToken(toks, i).type = "WHERE"
    THEN Node("Some", Run(toks, Parsed(i, <<>>), <<"<where>">>))
    ELSE Parsed(i, None)

\* let joinClause = null; the JOIN branch of parseSelectStatement
OptionalJoin(toks, i) ==
    IF currentToken(toks, i).type = "JOIN"
    THEN Node("JoinClause",
              Run(toks, Parsed(i + 1, <<>>),
                  <<"<identifier>", "ON", "<name>", "ASSIGN", "<name>">>))
    ELSE Parsed(i, None)

parseSelectStatement(toks, i) ==
    Node("SelectStatement",
         Run(toks, Parsed(i, <<>>),
             <<"SELECT", "<columns>", "FROM", "<identifier>", "<join?>", "<where?>",
               "SEMICOLON">>))

parseValueList(toks, i) ==
    Run(toks,
        CommaList(toks, Run(toks, Parsed(i, <<>>), <<"LEFT_PAREN", "<value>">>),
                  "<value>"),
        <<"RIGHT_PAREN">>)

parseInsertStatement(toks, i) ==
    Node("InsertStatement",
         Run(toks, Parsed(i, <<>>),
             <<"INSERT", "INTO", "<identifier>", "VALUES", "<values>", "SEMICOLON">>))

parseCreateDatabase(toks, i) ==
    Node("CreateDatabaseStatement",
         Run(toks, Parsed(i, <<>>), <<"DATABASE", "<identifier>", "SEMICOLON">>))

\* one turn of the while loop of parseCreateTable up to the test for a comma
ReadTableItem(toks, st) ==
    IF currentToken(toks, st.i).type = "PRIMARY"
    THEN TableItem(st, "PRIMARY",
                   Run(toks, Parsed(st.i + 1, <<>>),
                       <<"KEY", "LEFT_PAREN", "<identifier>", "RIGHT_PAREN">>))
    ELSE IF currentToken(toks, st.i).type = "FOREIGN"
    THEN TableItem(st, "FOREIGN",
                   Run(toks, Parsed(st.i + 1, <<>>),
                       <<"KEY", "LEFT_PAREN", "<identifier>", "RIGHT_PAREN",
                         "REFERENCES", "<identifier>", "LEFT_PAREN", "<identifier>",
                         "RIGHT_PAREN">>))
    ELSE TableItem(st, "COLUMN",
                   Run(toks, Parsed(st.i, <<>>), <<"<identifier>", "<type>">>))

\* if (currentToken.type === COMMA) nextToken(); else break;
AfterTableItem(toks, st) ==
    IF st.ok /\ currentToken(toks, st.i).type = "COMMA"
    THEN TableItems(toks, [st EXCEPT !.i = @ + 1])
    ELSE st

\* the while loop of parseCreateTable
TableItems(toks, st) ==
    IF currentToken(toks, st.i).type = "RIGHT_PAREN" THEN st
    ELSE AfterTableItem(toks, ReadTableItem(toks, st))

parseCreateTable(toks, i) ==
    Node("CreateTableStatement",
         Run(toks, Parsed(i, <<>>),
             <<"TABLE", "<identifier>", "LEFT_PAREN", "<items>", "RIGHT_PAREN",
               "SEMICOLON">>))

parseCreateStatement(toks, i) ==
    IF currentToken(toks, i).type # "CREATE" THEN expect(toks, i, "CREATE")
    ELSE IF currentToken(toks, i + 1).type = "DATABASE"
    THEN parseCreateDatabase(toks, i + 1)
    ELSE IF currentToken(toks, i + 1).type = "TABLE"
    THEN parseCreateTable(toks, i + 1)
    ELSE IF currentToken(toks, i + 1).type = "INDEX"
    THEN Node("CreateIndexStatement",
              Run(toks, Parsed(i + 2, <<>>),
                  <<"<identifier>", "LEFT_PAREN", "<identifier>", "RIGHT_PAREN",
                    "SEMICOLON">>))
    ELSE ParseError("Unknown CREATE statement: " \o currentToken(toks, i + 1).type)

parseUseStatement(toks, i) ==
    Node("UseStatement",
         Run(toks, Parsed(i, <<>>), <<"USE", "<identifier>", "SEMICOLON">>))

parseShowStatement(toks, i) ==
    IF currentToken(toks, i).type # "SHOW" THEN expect(toks, i, "SHOW")
    ELSE IF currentToken(toks, i + 1).type = "DATABASES"
    THEN Node("ShowDatabasesStatement", Run(toks, Parsed(i + 2, <<>>), <<"SEMICOLON">>))
    ELSE IF currentToken(toks, i + 1).type = "TABLES"
    THEN Node("ShowTablesStatement", Run(toks, Parsed(i + 2, <<>>), <<"SEMICOLON">>))
    ELSE ParseError("Unknown SHOW statement: " \o currentToken(toks, i + 1).type)

\* the while loop of parseUpdates
MoreUpdates(toks, st) ==
    IF st.ok /\ currentToken(toks, st.i).type = "COMMA"
    THEN MoreUpdates(toks,
             Assigned(st, Run(toks, Parsed(st.i + 1, <<>>),
                              <<"<identifier>", "ASSIGN", "<value>">>)))
    ELSE st

parseUpdates(toks, i) ==
    MoreUpdates(toks,
        Assigned(Parsed(i, <<>>),
                 Run(toks, Parsed(i, <<>>), <<"<identifier>", "ASSIGN", "<value>">>)))

parseUpdateStatement(toks, i) ==
    Node("UpdateStatement",
         Run(toks, Parsed(i, <<>>),
             <<"UPDATE", "<identifier>", "SET", "<updates>", "<where?>", "SEMICOLON">>))

parseDeleteStatement(toks, i) ==
    Node("DeleteStatement",
         Run(toks, Parsed(i, <<>>),
             <<"DELETE", "FROM", "<identifier>", "<where?>", "SEMICOLON">>))

parseDotCommand(toks, i) ==
    Parsed(i + 1, [type |-> "DotCommand", command |-> currentToken(toks, i).literal])

\* one step of a parsing method
ParseStep(toks, st, step) ==
    LET type == currentToken(toks, st.i).type
    IN CASE step = "<identifier>" -> Push(st, expectName(toks, st.i))
         [] step = "<.identifier?>" ->
               IF type = "PERIOD" THEN Push(st, expectName(toks, st.i + 1)) ELSE st
         [] step = "<name>" -> Push(st, parseIdentifier(toks, st.i))
         [] step = "<columns>" -> Push(st, parseColumnList(toks, st.i))
         [] step = "<join?>" -> Push(st, OptionalJoin(toks, st.i))
         [] step = "<where>" -> Push(st, parseWhereClause(toks, st.i))
         [] step = "<where?>" -> Push(st, OptionalWhere(toks, st.i))
         [] step = "<operator>" ->
               IF type \in {"ASSIGN", "LESS_THAN", "GREATER_THAN"}
               THEN Push(st, Parsed(st.i + 1, currentToken(toks, st.i).literal))
               ELSE ParseError("Invalid operator in WHERE clause: " \o type)
         [] step = "<right>" ->
               IF type = "INTEGER"
               THEN Push(st, Parsed(st.i + 1,
                                    Num(parseInt(currentToken(toks, st.i).literal))))
               ELSE IF type = "STRING"
               THEN Push(st, Parsed(st.i + 1, Str(currentToken(toks, st.i).literal)))
               ELSE IF type = "IDENTIFIER"
               THEN Push(st, Node("String", Run(toks, Parsed(st.i, <<>>), <<"<name>">>)))
               ELSE ParseError("Invalid value in WHERE clause: " \o type)
         [] step = "<value>" -> Push(st, parseValue(toks, st.i))
         [] step = "<values>" -> Push(st, parseValueList(toks, st.i))
         [] step = "<type>" -> Push(st, Parsed(st.i + 1, type))
         [] step = "<items>" ->
               Push(st, TableItems(toks,
                          Parsed(st.i, [columns |-> <<>>,
                                        constraints |-> [primaryKey |-> None,
                                                         foreignKeys |-> <<>>]])))
         [] step = "<updates>" -> Push(st, parseUpdates(toks, st.i))
         [] OTHER -> Keep(st, expect(toks, st.i, step))

\* the steps of a parsing method, one after the other until one throws
Run(toks, st, steps) ==
    IF ~st.ok \/ Len(steps) = 0 THEN st
    ELSE Run(toks, ParseStep(toks, st, Head(steps)), Tail(steps))

\* while (currentToken.type === COMMA) { nextToken(); <read an item> }
CommaList(toks, st, item) ==
    IF st.ok /\ currentToken(toks, st.i).type = "COMMA"
    THEN CommaList(toks, ParseStep(toks, [st EXCEPT !.i = @ + 1], item), item)
    ELSE st

parseStatement(toks, i) ==
    LET type == currentToken(toks, i).type
    IN IF type = "SELECT" THEN parseSelectStatement(toks, i)
       ELSE IF type = "INSERT" THEN parseInsertStatement(toks, i)
       ELSE IF type = "UPDATE" THEN parseUpdateStatement(toks, i)
       ELSE IF type = "DELETE" THEN parseDeleteStatement(toks, i)
       ELSE IF type = "CREATE" THEN parseCreateStatement(toks, i)
       ELSE IF type = "USE" THEN parseUseStatement(toks, i)
       ELSE IF type = "SHOW" THEN parseShowStatement(toks, i)
       ELSE IF startsWith(type, "DOT_") THEN parseDotCommand(toks, i)
       ELSE IF type = "EOF" THEN ParseError("Empty statement")
       ELSE ParseError("Unknown statement type: " \o type)

\* not the code: tokens after the statement are an error
parse_WholeText(toks) ==
    IF parseStatement(toks, 1).ok
       /\ currentToken(toks, parseStatement(toks, 1).i).type # "EOF"
    THEN ParseError("Unexpected token: "
                       \o currentToken(toks, parseStatement(toks, 1).i).type)
    ELSE parseStatement(toks, 1)

\* parse(): the statement at the first token
parse(toks) == parseStatement(toks, 1)

----------------------------------------------------------------------------
(* The Interpreter (interpreter.js).                                       *)

\* "\x1B[2J\x1B[0;0H", the escape character written <ESC>
ClearScreen == "<ESC>[2J<ESC>[0;0H"

\* an outcome of executeDotCommand that is no return: process.exit(0)
ProcessExit == [kind |-> "exit", text |-> "", rows |-> <<>>]

executeDotCommand(dbs, cur, command) ==
    IF command \in {".exit", ".quit"} THEN Outcome(dbs, cur, FALSE, <<>>, ProcessExit)
    ELSE IF command = ".clear"
    THEN Outcome(dbs, cur, FALSE, <<>>, ReturnString(ClearScreen))
    ELSE Outcome(dbs, cur, FALSE, <<>>, ReturnString("Unknown command: " \o command))

executeAST(dbs, cur, ast) ==
    CASE ast.type = "CreateDatabaseStatement" -> createDatabase(dbs, cur, ast.name)
      [] ast.type = "UseStatement" -> useDatabase(dbs, cur, ast.database)
      [] ast.type = "ShowDatabasesStatement" -> showDatabases(dbs, cur)
      [] ast.type = "ShowTablesStatement" -> showTables(dbs, cur)
      [] ast.type = "CreateTableStatement" ->
            createTable(dbs, cur, ast.name, ast.columns, ast.constraints)
      [] ast.type = "InsertStatement" -> insertIntoTable(dbs, cur, ast.table, ast.values)
      [] ast.type = "SelectStatement" ->
            selectFromTable(dbs, cur, ast.table, ast.columns, ast.where, ast.join)
      [] ast.type = "CreateIndexStatement" ->
            createIndex(dbs, cur, ast.tableName, ast.columnName)
      [] ast.type = "UpdateStatement" ->
            updateTable(dbs, cur, ast.table, ast.updates, ast.where)
      [] ast.type = "DeleteStatement" -> deleteFromTable(dbs, cur, ast.table, ast.where)
      [] ast.type = "DotCommand" -> executeDotCommand(dbs, cur, ast.command)
      [] OTHER ->
            Outcome(dbs, cur, FALSE, <<>>,
                    ReturnString("Unknown statement type: " \o ast.type))

\* the body of execute's try once the tokens are there: parse, then executeAST
ParseAndDispatch(dbs, cur, toks) ==
    LET ast == parse(toks)
    IN IF ast.ok THEN executeAST(dbs, cur, ast.v) ELSE Throw(dbs, cur, ast.msg)

\* execute's catch: an Error becomes the string "Error: <message>"
Caught(out) ==
    IF out.result.kind = "throw"
    THEN [out EXCEPT !.result = ReturnString("Error: " \o out.result.text)]
    ELSE out

----------------------------------------------------------------------------
(* The engine as a state machine: a host calls the Storage Engine methods. *)

\* new Lexer("") before any text was given
IdleLexer ==
    [input |-> "", position |-> 0, readPosition |-> 0, ch |-> NUL,
     line |-> 1, column |-> 2]

\* new Database() where engine_data.json does not exist: loadFromFile returns
\* at once and the constructor logs one line
EngineInit ==
    /\ databases = <<>>
    /\ currentDatabase = None
    /\ file = NoFile
    /\ logged = <<"Database Engine Started.">>
    /\ call = "constructor"
    /\ result = ReturnString("")

Init ==
    /\ EngineInit
    /\ script = <<>>
    /\ pos = 1
    /\ pc = "idle"
    /\ lexer = IdleLexer
    /\ tokens = <<>>
    /\ results = <<>>

\* not the code: the file is written from the state before the call
NextFile_BeforeTheCall(out, writeOk) ==
    IF out.save /\ writeOk THEN FileOf(databases) ELSE file

\* not the code: a write that throws has still replaced the file
NextFile_WritesAnyway(out, writeOk) ==
    IF out.save THEN FileOf(out.databases) ELSE file

\* the file after a call: saveToFile rewrites it unless fs.writeFileSync throws
NextFile(out, writeOk) ==
    IF out.save /\ writeOk THEN FileOf(out.databases) ELSE file

\* the state after a call; saveToFile logs its failure before the call's own line
Apply(method, out, writeOk) ==
    /\ databases' = out.databases
    /\ currentDatabase' = out.currentDatabase
    /\ file' = NextFile(out, writeOk)
    /\ logged' = (IF out.save /\ ~writeOk
                  THEN <<"Critical: Failed to persist data">> ELSE <<>>)
                 \o out.logged
    /\ call' = method
    /\ result' = out.result

\* --- the calls the host of this specification makes ---

DbNames == {"shop"}

Column(name, type) == [name |-> name, type |-> type]
ForeignKey(column, refTable, refCol) ==
    [column |-> column, refTable |-> refTable, refCol |-> refCol]
Constraints(pk, fks) == [primaryKey |-> pk, foreignKeys |-> fks]
Where(left, operator, right) ==
    [type |-> "WhereClause", left |-> left, operator |-> operator, right |-> right]
Join(table, leftCol, rightCol) ==
    [table |-> table, leftCol |-> leftCol, rightCol |-> rightCol]

CreateTableCalls ==
    { [name |-> "users",
       columns |-> <<Column("ID", "INT"), Column("Name", "TEXT")>>,
       constraints |-> Constraints(Some("ID"), <<>>)],
      [name |-> "users",
       columns |-> <<Column("id", "INT"), Column("name", "TEXT")>>,
       constraints |-> Constraints(None, <<>>)],
      [name |-> "orders",
       columns |-> <<Column("id", "INT"), Column("user_id", "INT")>>,
       constraints |-> Constraints(Some("id"), <<ForeignKey("user_id", "users", "ID")>>)],
      [name |-> "orders",
       columns |-> <<Column("user_id", "INT"), Column("id", "INT")>>,
       constraints |-> Constraints(Some("id"), <<ForeignKey("user_id", "users", "id")>>)] }

InsertCalls ==
    { [table |-> "users", values |-> <<Num(1), Str("a")>>],
      [table |-> "users", values |-> <<Num(2), Str("a")>>],
      [table |-> "users", values |-> <<Str("1"), Str("a")>>],
      [table |-> "orders", values |-> <<Num(1), Num(1)>>],
      [table |-> "orders", values |-> <<Num(2), Num(1)>>],
      [table |-> "orders", values |-> <<Num(1), Num(2)>>] }

SelectCalls ==
    { [table |-> "users", columns |-> <<"*">>, where |-> None, join |-> None],
      [table |-> "users", columns |-> <<"Name">>,
       where |-> Some(Where("ID", "=", Num(1))), join |-> None],
      [table |-> "users", columns |-> <<"*">>, where |-> None,
       join |-> Some(Join("orders", "id", "user_id"))],
      [table |-> "orders", columns |-> <<"*">>, where |-> None, join |-> None] }

UpdateCalls ==
    { [table |-> "users", updates |-> <<<<"Name", Str("b")>>>>,
       where |-> Some(Where("id", "=", Num(1)))],
      [table |-> "users", updates |-> <<<<"ID", Num(1)>>>>, where |-> None],
      [table |-> "orders", updates |-> <<<<"user_id", Num(2)>>>>,
       where |-> Some(Where("id", ">", Num(1)))] }

DeleteCalls ==
    { [table |-> "users", where |-> None],
      [table |-> "users", where |-> Some(Where("id", "<", Str("2")))],
      [table |-> "orders", where |-> Some(Where("ID", "=", Num(1)))] }

\* fs.writeFileSync succeeds in every write of this specification
DiskWrites == {TRUE}

\* the number of rows of a table of the current database, 0 when there is none
RowCount(tableName) ==
    IF currentDatabase # None /\ MapHas(TablesOf(databases, currentDatabase), tableName)
    THEN Len(MapGet(TablesOf(databases, currentDatabase), tableName).rows)
    ELSE 0

\* --- one action per Storage Engine method ---

CreateDatabase ==
    \E name \in DbNames, ok \in DiskWrites :
        /\ pc = "idle"
        /\ Apply("createDatabase",
                 createDatabase(databases, currentDatabase, name), ok)
        /\ UNCHANGED execVars

UseDatabase ==
    \E name \in DbNames :
        /\ pc = "idle"
        /\ Apply("useDatabase", useDatabase(databases, currentDatabase, name), TRUE)
        /\ UNCHANGED execVars

CreateTable ==
    \E c \in CreateTableCalls, ok \in DiskWrites :
        /\ pc = "idle"
        /\ Apply("createTable",
                 createTable(databases, currentDatabase, c.name, c.columns,
                             c.constraints), ok)
        /\ UNCHANGED execVars

InsertIntoTable ==
    \E c \in InsertCalls, ok \in DiskWrites :
        /\ pc = "idle"
        /\ RowCount(c.table) < MaxRows
        /\ Apply("insertIntoTable",
                 insertIntoTable(databases, currentDatabase, c.table, c.values), ok)
        /\ UNCHANGED execVars

SelectFromTable ==
    \E c \in SelectCalls :
        /\ pc = "idle"
        /\ Apply("selectFromTable",
                 selectFromTable(databases, currentDatabase, c.table, c.columns,
                                 c.where, c.join), TRUE)
        /\ UNCHANGED execVars

UpdateTable ==
    \E c \in UpdateCalls, ok \in DiskWrites :
        /\ pc = "idle"
        /\ Apply("updateTable",
                 updateTable(databases, currentDatabase, c.table, c.updates,
                             c.where), ok)
        /\ UNCHANGED execVars

DeleteFromTable ==
    \E c \in DeleteCalls, ok \in DiskWrites :
        /\ pc = "idle"
        /\ Apply("deleteFromTable",
                 deleteFromTable(databases, currentDatabase, c.table, c.where), ok)
        /\ UNCHANGED execVars

Next ==
    \/ CreateDatabase
    \/ UseDatabase
    \/ CreateTable
    \/ InsertIntoTable
    \/ SelectFromTable
    \/ UpdateTable
    \/ DeleteFromTable

Spec == Init /\ [][Next]_vars

\* a host that creates, selects a database and inserts, and does nothing else
NextInserts ==
    \/ CreateDatabase
    \/ UseDatabase
    \/ CreateTable
    \/ InsertIntoTable

SpecInserts == Init /\ [][NextInserts]_vars

\* --- the hosts of the other specifications make their calls through Call ---

\* a call of a Storage Engine method with its arguments
Invoke(dbs, cur, c) ==
    CASE c.method = "createDatabase" -> createDatabase(dbs, cur, c.name)
      [] c.method = "useDatabase" -> useDatabase(dbs, cur, c.name)
      [] c.method = "createTable" ->
            createTable(dbs, cur, c.name, c.columns, c.constraints)
      [] c.method = "insertIntoTable" -> insertIntoTable(dbs, cur, c.table, c.values)
      [] c.method = "updateTable" -> updateTable(dbs, cur, c.table, c.updates, c.where)
      [] c.method = "deleteFromTable" -> deleteFromTable(dbs, cur, c.table, c.where)
      [] c.method = "createIndex" -> createIndex(dbs, cur, c.table, c.column)

\* the host makes one of the calls of a set; writes tells whether the write of
\* the file may succeed (TRUE) and whether it may fail (FALSE)
Call(calls, method, writes) ==
    \E c \in calls, ok \in writes :
        /\ pc = "idle"
        /\ c.method = method
        /\ c.method = "insertIntoTable" => RowCount(c.table) < MaxRows
        /\ Apply(method, Invoke(databases, currentDatabase, c), ok)
        /\ UNCHANGED execVars

----------------------------------------------------------------------------
(* The engine behind execute: a host hands the texts of a script, one per  *)
(* call, to Interpreter.execute.                                           *)

\* the example of a declared primary key
PrimaryKeyScript ==
    << "CREATE DATABASE shop;",
       "USE shop;",
       "CREATE TABLE t (id INT, name TEXT, PRIMARY KEY (id));",
       "INSERT INTO t VALUES (1,'a');",
       "INSERT INTO t VALUES (1,'b');",
       "SELECT * FROM t;" >>

\* the example of a join on table-qualified columns
JoinScript ==
    << "CREATE DATABASE shop;",
       "USE shop;",
       "CREATE TABLE users (id INT, name TEXT);",
       "CREATE TABLE orders (id INT, user_id INT, item TEXT);",
       "INSERT INTO users VALUES (1,'A');",
       "INSERT INTO orders VALUES (10,1,'X');",
       "INSERT INTO orders VALUES (11,2,'Y');",
       "SELECT name FROM users JOIN orders ON users.id = orders.user_id;" >>

\* statements that work, and texts that fail in the lexer's tokens, in the
\* parser or in the engine
MixedScript ==
    << "",
       "SHOW DATABASES;",
       "SHOW TABLES;",
       "create database shop;",
       "CREATE DATABASE shop;",
       "USE nowhere;",
       "USE shop;",
       "CREATE TABLE t (id INT, name TEXT);",
       "INSERT INTO t VALUES (1, \"a\");",
       "INSERT INTO t VALUES (2, 'b')",
       "UPDATE t SET name = 'c' WHERE id > 0;",
       "SELECT Name FROM t WHERE id = '1';",
       "SELECT * FROM missing;",
       "DELETE FROM t WHERE id < 2;",
       "DELETE FROM missing;",
       "DROP TABLE t;",
       "SELECT # FROM t;",
       "SHOW TABLES;" >>

\* a dot command
DotScript == << "USE shop;", ".exit" >>

\* the statement the web application of the repository sends for an index,
\* and the same without ON
IndexScript ==
    << "CREATE DATABASE shop;",
       "USE shop;",
       "CREATE TABLE t (c INT);",
       "INSERT INTO t VALUES (1);",
       "CREATE INDEX ON t (c);",
       "CREATE INDEX t (C);",
       "SELECT * FROM t WHERE c = 1;" >>

\* the other dot commands: one the lexer knows and one it does not
QuitScript == << "CREATE DATABASE shop;", ".quit" >>

HelpScript == << "CREATE DATABASE shop;", ".help" >>

\* statements of every kind without the semicolon that ends them, after
\* statements that set up what they name
UnterminatedScript ==
    << "CREATE DATABASE shop;",
       "CREATE DATABASE logs;",
       "USE shop;",
       "CREATE TABLE t (id INT, name TEXT);",
       "INSERT INTO t VALUES (1, 'a');",
       "CREATE DATABASE extra",
       "USE logs",
       "CREATE TABLE u (id INT)",
       "CREATE INDEX t (id)",
       "INSERT INTO t VALUES (2, 'b')",
       "UPDATE t SET name = 'c'",
       "UPDATE t SET name = 'c' WHERE id = 1",
       "DELETE FROM t",
       "DELETE FROM t WHERE id = 1",
       "SELECT * FROM t",
       "SELECT name FROM t WHERE id = 1",
       "SELECT * FROM t JOIN t ON t.id = t.id",
       "SHOW DATABASES",
       "SHOW TABLES",
       "USE logs USE shop;",
       "SELECT * FROM t;" >>

\* statements that fail in the parser and in the engine, before and after a
\* database is selected and a table with a row and an index is there
FailingScript ==
    << "CREATE TABLE t (id INT);",
       "INSERT INTO t VALUES (1);",
       "CREATE DATABASE shop;",
       "USE shop;",
       "CREATE TABLE t (id INT, name TEXT);",
       "INSERT INTO t VALUES (1, 'a');",
       "CREATE INDEX t (name);",
       "CREATE DATABASE shop;",
       "USE nowhere;",
       "INSERT INTO missing VALUES (2, 'b');",
       "INSERT INTO t VALUES (2, 'b';",
       "UPDATE missing SET name = 'c';",
       "UPDATE t SET name = WHERE id = 1;",
       "DELETE FROM missing;",
       "DELETE FROM t WHERE id;",
       "SELECT * FROM missing;",
       "CREATE INDEX missing (id);",
       "CREATE TABLE t (id INT",
       "SELECT * FROM t;" >>

\* a column named with and without its table
QualifiedScript ==
    << "CREATE DATABASE shop;",
       "USE shop;",
       "CREATE TABLE t (c INT);",
       "INSERT INTO t VALUES (1);",
       "SELECT c FROM t WHERE c = 1;",
       "SELECT t.c FROM t WHERE t.c = 1;",
       "SELECT t.c FROM t;",
       "SELECT c FROM t WHERE t.c = 1;" >>

\* texts that hold more than one statement, or a statement and more tokens
SeveralStatementsScript ==
    << "CREATE DATABASE shop; USE shop;",
       "SHOW TABLES;",
       "USE shop; CREATE TABLE t (c INT);",
       "SHOW TABLES;",
       "CREATE TABLE t (c INT); INSERT INTO t VALUES (1);",
       "SELECT * FROM t; DELETE FROM",
       "INSERT INTO t VALUES (1); ) nonsense (",
       "SELECT * FROM t;" >>

Scripts ==
    {PrimaryKeyScript, JoinScript, MixedScript, DotScript, IndexScript,
     QuitScript, HelpScript, UnterminatedScript, FailingScript, QualifiedScript,
     SeveralStatementsScript}

InitExec ==
    /\ EngineInit
    /\ script \in Scripts
    /\ pos = 1
    /\ pc = "idle"
    /\ lexer = IdleLexer
    /\ tokens = <<>>
    /\ results = <<>>

\* execute(input) up to the call of tokenize: new Lexer(input), new Parser(lexer)
Execute ==
    /\ pc = "idle"
    /\ pos <= Len(script)
    /\ lexer' = NewLexer(script[pos])
    /\ tokens' = <<>>
    /\ pc' = "tokenize"
    /\ UNCHANGED <<engineVars, script, pos, results>>

\* one call of nextToken by tokenize, and the push of the token it returned;
\* the loop ends with the EOF token
Tokenize ==
    /\ pc = "tokenize"
    /\ Len(tokens) < MaxTokens
    /\ LET next == nextToken(lexer)
       IN /\ lexer' = next.lexer
          /\ tokens' = Append(tokens, next.token)
          /\ pc' = IF next.token.type = "EOF" THEN "parse" ELSE "tokenize"
    /\ UNCHANGED <<engineVars, script, pos, results>>

\* the rest of execute: parseStatement, executeAST and the catch; the value is
\* returned to the host, unless the statement ended the process
ParseAndExecute ==
    \E ok \in DiskWrites :
        LET out == Caught(ParseAndDispatch(databases, currentDatabase, tokens))
        IN /\ pc = "parse"
           /\ Apply("execute", out, ok)
           /\ pc' = IF out.result = ProcessExit THEN "exited" ELSE "idle"
           /\ results' = IF out.result = ProcessExit THEN results
                         ELSE Append(results, out.result)
           /\ pos' = pos + 1
           /\ UNCHANGED <<script, lexer, tokens>>

NextExec ==
    \/ Execute
    \/ Tokenize
    \/ ParseAndExecute

SpecExec == InitExec /\ [][NextExec]_vars


----------------------------------------------------------------------------
(* Several callers of one engine: the sockets of attachAdminUI and the     *)
(* programmatic API hand their texts to the one Interpreter of an AudoDB   *)
(* object.  A handler runs execute to its end before the next one starts,  *)
(* so what the engine sees is one sequence of texts, the texts of the      *)
(* callers merged in the order they arrive.                                *)

\* what is executed before the callers start
SetupTexts == << "CREATE DATABASE a;", "CREATE DATABASE b;" >>

\* the texts of caller A and of caller B, each in the order the caller sends them
CallerTexts ==
    [A |-> << "USE a;", "CREATE TABLE t (id INT);", "INSERT INTO t VALUES (1);" >>,
     B |-> << "USE b;", "USE nowhere;", "SHOW TABLES;" >>]

\* every order in which the texts of two callers can arrive
RECURSIVE Merges(_, _)
Merges(a, b) ==
    IF Len(a) = 0 THEN {b}
    ELSE IF Len(b) = 0 THEN {a}
    ELSE {<<Head(a)>> \o m : m \in Merges(Tail(a), b)}
         \cup {<<Head(b)>> \o m : m \in Merges(a, Tail(b))}

InitCallers ==
    /\ EngineInit
    /\ script \in {SetupTexts \o m : m \in Merges(CallerTexts.A, CallerTexts.B)}
    /\ pos = 1
    /\ pc = "idle"
    /\ lexer = IdleLexer
    /\ tokens = <<>>
    /\ results = <<>>

SpecCallers == InitCallers /\ [][NextExec]_vars

----------------------------------------------------------------------------
(* The engine with indices: a host calls createIndex among the other       *)
(* Storage Engine methods.                                                 *)

IndexCalls ==
    { [method |-> "createDatabase", name |-> "shop"],
      [method |-> "useDatabase", name |-> "shop"],
      [method |-> "createTable", name |-> "users",
       columns |-> <<Column("id", "INT"), Column("name", "TEXT")>>,
       constraints |-> Constraints(None, <<>>)],
      [method |-> "createTable", name |-> "users",
       columns |-> <<Column("Code", "TEXT")>>,
       constraints |-> Constraints(Some("Code"), <<>>)],
      [method |-> "insertIntoTable", table |-> "users", values |-> <<Num(1), Str("a")>>],
      [method |-> "insertIntoTable", table |-> "users", values |-> <<Num(2), Str("a")>>],
      [method |-> "updateTable", table |-> "users", updates |-> <<<<"Name", Str("b")>>>>,
       where |-> Some(Where("id", "=", Num(1)))],
      [method |-> "deleteFromTable", table |-> "users",
       where |-> Some(Where("id", "=", Num(1)))],
      [method |-> "deleteFromTable", table |-> "users", where |-> None],
      [method |-> "createIndex", table |-> "users", column |-> "Name"],
      [method |-> "createIndex", table |-> "users", column |-> "ID"] }

NextIndex ==
    \/ Call(IndexCalls, "createDatabase", {TRUE})
    \/ Call(IndexCalls, "useDatabase", {TRUE})
    \/ Call(IndexCalls, "createTable", {TRUE})
    \/ Call(IndexCalls, "insertIntoTable", {TRUE})
    \/ Call(IndexCalls, "updateTable", {TRUE})
    \/ Call(IndexCalls, "deleteFromTable", {TRUE})
    \/ Call(IndexCalls, "createIndex", {TRUE})

SpecIndex == Init /\ [][NextIndex]_vars

----------------------------------------------------------------------------
(* The engine and its file: a host calls the Storage Engine methods while  *)
(* fs.writeFileSync may throw in any write, and may end the process and    *)
(* construct the engine again from the file that is there.                 *)

\* not the code: the engine constructed anew keeps the selection that was
Restart_KeepsSelection ==
    /\ pc = "idle"
    /\ databases' = loadFromFile(file).databases
    /\ currentDatabase' = currentDatabase
    /\ logged' = loadFromFile(file).logged \o <<"Database Engine Started.">>
    /\ call' = "constructor"
    /\ result' = ReturnString("")
    /\ UNCHANGED <<file, execVars>>

\* the process ends and a new one constructs the engine: loadFromFile, then
\* the line of the constructor
Restart ==
    /\ pc = "idle"
    /\ databases' = loadFromFile(file).databases
    /\ currentDatabase' = None
    /\ logged' = loadFromFile(file).logged \o <<"Database Engine Started.">>
    /\ call' = "constructor"
    /\ result' = ReturnString("")
    /\ UNCHANGED <<file, execVars>>

DiskCalls ==
    { [method |-> "createDatabase", name |-> "shop"],
      [method |-> "useDatabase", name |-> "shop"],
      [method |-> "createTable", name |-> "users",
       columns |-> <<Column("ID", "INT"), Column("Name", "TEXT")>>,
       constraints |-> Constraints(Some("ID"), <<>>)],
      [method |-> "insertIntoTable", table |-> "users", values |-> <<Num(1), Str("a")>>],
      [method |-> "insertIntoTable", table |-> "users", values |-> <<Num(2)>>],
      [method |-> "updateTable", table |-> "users", updates |-> <<<<"Name", Str("b")>>>>,
       where |-> Some(Where("id", "=", Num(1)))],
      [method |-> "deleteFromTable", table |-> "users",
       where |-> Some(Where("id", "=", Num(1)))],
      [method |-> "deleteFromTable", table |-> "users", where |-> None] }

NextDisk ==
    \/ Call(DiskCalls, "createDatabase", {TRUE, FALSE})
    \/ Call(DiskCalls, "useDatabase", {TRUE})
    \/ Call(DiskCalls, "createTable", {TRUE, FALSE})
    \/ Call(DiskCalls, "insertIntoTable", {TRUE, FALSE})
    \/ Call(DiskCalls, "updateTable", {TRUE, FALSE})
    \/ Call(DiskCalls, "deleteFromTable", {TRUE, FALSE})
    \/ Restart

SpecDisk == Init /\ [][NextDisk]_vars

----------------------------------------------------------------------------
(* The engine and a file that does not stay as it was written: between two *)
(* runs of the process the file may be removed or damaged.                 *)

\* engine_data.json is removed
Remove ==
    /\ pc = "idle"
    /\ file.exists
    /\ file' = NoFile
    /\ UNCHANGED <<databases, currentDatabase, logged, call, result, execVars>>

\* engine_data.json is damaged: cut short or overwritten so that it does not
\* parse, or edited so that it parses and one of its databases is null
Damage ==
    /\ pc = "idle"
    /\ file.exists
    /\ file.damage = <<>>
    /\ \E k \in 0..Len(file.data) : file' = [file EXCEPT !.damage = <<k>>]
    /\ UNCHANGED <<databases, currentDatabase, logged, call, result, execVars>>

FileCalls ==
    { [method |-> "createDatabase", name |-> "shop"],
      [method |-> "createDatabase", name |-> "logs"],
      [method |-> "useDatabase", name |-> "shop"],
      [method |-> "createTable", name |-> "users",
       columns |-> <<Column("id", "INT")>>, constraints |-> Constraints(None, <<>>)],
      [method |-> "insertIntoTable", table |-> "users", values |-> <<Num(1)>>] }

NextFiles ==
    \/ Call(FileCalls, "createDatabase", {TRUE})
    \/ Call(FileCalls, "useDatabase", {TRUE})
    \/ Call(FileCalls, "createTable", {TRUE})
    \/ Call(FileCalls, "insertIntoTable", {TRUE})
    \/ Restart
    \/ Remove
    \/ Damage

SpecFiles == Init /\ [][NextFiles]_vars

----------------------------------------------------------------------------
(* Claims about the Storage Engine.  Each is stated for every reachable    *)
(* state and every argument of the probe sets below: the method is applied *)
(* to the state and its outcome compared with what the claim says.         *)

ProbeValues == {Num(1), Num(2), Str("1"), Str("a")}

ProbeValueLists ==
    {<<a, b>> : a \in ProbeValues, b \in ProbeValues} \cup {<<a>> : a \in ProbeValues}

ProbeWheres ==
    { None, Some(Where("id", "=", Num(1))), Some(Where("id", "=", Str("1"))),
      Some(Where("ID", ">", Num(1))), Some(Where("id", "<", Str("2"))),
      Some(Where("name", "=", Str("a"))), Some(Where("user_id", "<", Num(2))) }

ProbeUpdates ==
    { <<<<"Name", Str("b")>>>>, <<<<"ID", Num(1)>>, <<"name", Str("c")>>>> }

\* the tables of the current database
CurrentTables == IF currentDatabase = None THEN <<>> ELSE TablesOf(databases, currentDatabase)

ExistingTables == {CurrentTables[i].name : i \in 1..Len(CurrentTables)}

TableNamed(tableName) == MapGet(CurrentTables, tableName)

\* the rows of a table in the state an outcome leads to
RowsAfter(out, tableName) ==
    MapGet(TablesOf(out.databases, out.currentDatabase), tableName).rows

\* an outcome that changes neither memory nor, whatever the disk does, the file
ChangesNothing(out) ==
    /\ out.databases = databases
    /\ out.currentDatabase = currentDatabase
    /\ \A ok \in BOOLEAN : NextFile(out, ok) = file

\* the places of the primary-key column among the declared columns
PkPlaces(table) ==
    {k \in 1..Len(table.columns) :
        table.constraints.primaryKey = Some(table.columns[k].name)}

\* the places of the columns that carry a foreign key
FkPlaces(table) ==
    {k \in 1..Len(table.columns) :
        \E f \in 1..Len(table.constraints.foreignKeys) :
            table.constraints.foreignKeys[f].column = table.columns[k].name}

\* the value given for column k duplicates the primary key of an existing row
DuplicatesPk(table, values, k) ==
    /\ k \in PkPlaces(table)
    /\ \E i \in 1..Len(table.rows) :
          Get(table.rows[i], table.columns[k].name) = ValueAt(values, k)

\* the value given for column k matches no row of the table a foreign key of
\* that column references, or that table does not exist
BreaksFk(table, values, k) ==
    \E f \in 1..Len(table.constraints.foreignKeys) :
        LET fk == table.constraints.foreignKeys[f]
        IN /\ fk.column = table.columns[k].name
           /\ \/ fk.refTable \notin ExistingTables
              \/ \A i \in 1..Len(TableNamed(fk.refTable).rows) :
                    Get(TableNamed(fk.refTable).rows[i], fk.refCol) # ValueAt(values, k)

PkMessage(values, k) == "PK Violation: " \o TemplateString(ValueAt(values, k))
FkMessage(values, k) == "FK Violation: " \o TemplateString(ValueAt(values, k))

InsertOutcome(tableName, values) ==
    insertIntoTable(databases, currentDatabase, tableName, values)

\* C1 as claimed: an insert whose primary-key value an existing row already holds
\* throws the primary-key violation naming the value and changes neither the
\* rows nor the file.
C1_DuplicatePkInsertFailsWithPkViolation ==
    \A tableName \in ExistingTables, values \in ProbeValueLists :
        \A k \in PkPlaces(TableNamed(tableName)) :
            DuplicatesPk(TableNamed(tableName), values, k) =>
                LET out == InsertOutcome(tableName, values)
                IN /\ out.result = Thrown(PkMessage(values, k))
                   /\ ChangesNothing(out)

\* C1 amended: such an insert always throws and changes neither the rows nor the
\* file; it throws the primary-key violation naming the value unless a column
\* declared before the primary-key column fails its foreign-key check, and then
\* it throws that column's foreign-key violation.
C1_DuplicatePkInsertFails ==
    \A tableName \in ExistingTables, values \in ProbeValueLists :
        \A k \in PkPlaces(TableNamed(tableName)) :
            DuplicatesPk(TableNamed(tableName), values, k) =>
                LET out == InsertOutcome(tableName, values)
                    table == TableNamed(tableName)
                IN /\ ChangesNothing(out)
                   /\ out.result.kind = "throw"
                   /\ \/ out.result.text = PkMessage(values, k)
                      \/ \E j \in 1..(k - 1) :
                            /\ BreaksFk(table, values, j)
                            /\ out.result.text = FkMessage(values, j)

\* an insert into a table whose rows already hold the given primary key has
\* just thrown the primary-key violation, and the rows are still there
C1_Witness ==
    /\ call = "insertIntoTable"
    /\ result = Thrown("PK Violation: 1")
    /\ "users" \in ExistingTables
    /\ DuplicatesPk(TableNamed("users"), <<Num(1), Str("a")>>, 1)
    /\ Len(TableNamed("users").rows) = 2

\* C2 as claimed: an insert whose foreign-key value no row of the referenced
\* table holds (or whose referenced table does not exist) throws the foreign-key
\* violation naming the value and changes neither the rows nor the file.
C2_UnmatchedFkInsertFailsWithFkViolation ==
    \A tableName \in ExistingTables, values \in ProbeValueLists :
        \A k \in FkPlaces(TableNamed(tableName)) :
            BreaksFk(TableNamed(tableName), values, k) =>
                LET out == InsertOutcome(tableName, values)
                IN /\ out.result = Thrown(FkMessage(values, k))
                   /\ ChangesNothing(out)

\* C2 amended: such an insert always throws and changes neither the rows nor the
\* file; it throws the foreign-key violation naming the value unless an earlier
\* check fails first: the primary-key check of the same or of an earlier
\* declared column, or the foreign-key check of an earlier declared column.
C2_UnmatchedFkInsertFails ==
    \A tableName \in ExistingTables, values \in ProbeValueLists :
        \A k \in FkPlaces(TableNamed(tableName)) :
            BreaksFk(TableNamed(tableName), values, k) =>
                LET out == InsertOutcome(tableName, values)
                    table == TableNamed(tableName)
                IN /\ ChangesNothing(out)
                   /\ out.result.kind = "throw"
                   /\ \/ out.result.text = FkMessage(values, k)
                      \/ \E j \in 1..k :
                            /\ DuplicatesPk(table, values, j)
                            /\ out.result.text = PkMessage(values, j)
                      \/ \E j \in 1..(k - 1) :
                            /\ BreaksFk(table, values, j)
                            /\ out.result.text = FkMessage(values, j)

\* an insert into orders has just thrown the foreign-key violation for a user
\* id that users, which exists and has a row, does not hold
C2_Witness ==
    /\ call = "insertIntoTable"
    /\ result = Thrown("FK Violation: 2")
    /\ {"users", "orders"} \subseteq ExistingTables
    /\ Len(TableNamed("users").rows) > 0
    /\ Len(TableNamed("orders").rows) > 0
    /\ \E k \in FkPlaces(TableNamed("orders")) :
          BreaksFk(TableNamed("orders"), <<Num(1), Num(2)>>, k)

\* C3 as claimed: in every reachable state no two rows of a table that declares
\* a primary key hold the same value in the primary-key column.
C3_PrimaryKeyValuesAreUnique ==
    \A d \in 1..Len(databases) :
        \A t \in 1..Len(databases[d].tables) :
            LET table == databases[d].tables[t]
            IN table.constraints.primaryKey # None =>
                  \A i, j \in 1..Len(table.rows) :
                      i # j => Get(table.rows[i], table.constraints.primaryKey[1])
                               # Get(table.rows[j], table.constraints.primaryKey[1])

\* two rows of users, which declares ID as its primary key, hold the same id
\* after an update
C3_Witness ==
    /\ call = "updateTable"
    /\ "users" \in ExistingTables
    /\ TableNamed("users").constraints.primaryKey = Some("id")
    /\ Len(TableNamed("users").rows) = 2
    /\ Get(TableNamed("users").rows[1], "id") = Get(TableNamed("users").rows[2], "id")

\* what selectFromTable(tableName, ['*']) returns in the state an outcome leads to
SelectAllAfter(out, tableName) ==
    selectFromTable(out.databases, out.currentDatabase, tableName, <<"*">>,
                    None, None).result

\* the row binding the i-th value to the i-th declared column
BindsPositionally(row, table, values) ==
    /\ DOMAIN row = {table.columns[i].name : i \in 1..Len(table.columns)}
    /\ \A i \in 1..Len(table.columns) :
          row[table.columns[i].name]
          = (IF i \in DOMAIN values THEN values[i] ELSE Undefined)

HereOutcome == Outcome(databases, currentDatabase, FALSE, <<>>, ReturnString(""))

\* C5: SELECT * without WHERE or JOIN returns no row right after createTable,
\* after a successful insert the rows it returned before followed by one row
\* binding the i-th value to the i-th declared column, and after a failed insert
\* the rows it returned before: so it returns the successfully inserted rows,
\* one per insert, in insertion order.
C5_SelectReturnsInsertedRowsInOrder ==
    /\ \A c \in CreateTableCalls :
          currentDatabase # None =>
              SelectAllAfter(createTable(databases, currentDatabase, c.name,
                                         c.columns, c.constraints), c.name)
              = ReturnRows(<<>>)
    /\ \A tableName \in ExistingTables, values \in ProbeValueLists :
          LET out == InsertOutcome(tableName, values)
              before == SelectAllAfter(HereOutcome, tableName)
              after == SelectAllAfter(out, tableName)
          IN /\ before.kind = "rows"
             /\ after.kind = "rows"
             /\ out.result.kind \in {"string", "throw"}
             /\ out.result.kind = "throw" => after.rows = before.rows
             /\ out.result.kind = "string" =>
                   /\ Len(after.rows) = Len(before.rows) + 1
                   /\ SubSeq(after.rows, 1, Len(before.rows)) = before.rows
                   /\ BindsPositionally(after.rows[Len(after.rows)],
                                        TableNamed(tableName), values)

\* SELECT * FROM users has just returned two rows: the two inserted, the later
\* insert (id 1) after the earlier one (id 2)
C5_Witness ==
    /\ call = "selectFromTable"
    /\ result.kind = "rows"
    /\ Len(result.rows) = 2
    /\ "users" \in ExistingTables
    /\ result.rows = TableNamed("users").rows
    /\ BindsPositionally(result.rows[1], TableNamed("users"), <<Num(2), Str("a")>>)
    /\ BindsPositionally(result.rows[2], TableNamed("users"), <<Num(1), Str("a")>>)

\* a row satisfies a WHERE clause: loose equality for =, ordering for < and >
Satisfies(row, where) ==
    LET val == Get(row, toLowerCase(where.left))
    IN \/ where.operator = "=" /\ LooseEquals(val, where.right)
       \/ where.operator = "<" /\ LessThan(val, where.right)
       \/ where.operator = ">" /\ LessThan(where.right, val)

Selected(row, where) == where = None \/ Satisfies(row, where[1])

\* row2 is row with every assignment applied and nothing else changed
ReceivedAssignments(row, row2, updates) ==
    LET assigned == {toLowerCase(updates[u][1]) : u \in 1..Len(updates)}
    IN /\ DOMAIN row2 = (DOMAIN row) \cup assigned
       /\ \A u \in 1..Len(updates) : row2[toLowerCase(updates[u][1])] = updates[u][2]
       /\ \A key \in (DOMAIN row) \ assigned : row2[key] = row[key]

\* C6: updateTable gives every assignment to exactly the rows the WHERE clause
\* selects (every row without WHERE), leaves the other rows, the row order and
\* the row count as they were, and returns the number of rows it assigned to.
C6_UpdateAssignsExactlyTheSelectedRows ==
    \A tableName \in ExistingTables, updates \in ProbeUpdates, where \in ProbeWheres :
        LET out == updateTable(databases, currentDatabase, tableName, updates, where)
            before == TableNamed(tableName).rows
            after == RowsAfter(out, tableName)
            selected == {i \in 1..Len(before) : Selected(before[i], where)}
        IN /\ Len(after) = Len(before)
           /\ \A i \in selected : ReceivedAssignments(before[i], after[i], updates)
           /\ \A i \in (1..Len(before)) \ selected : after[i] = before[i]
           /\ out.result
              = ReturnString(NumberToString(Cardinality(selected)) \o " row(s) updated")

\* an update with WHERE has just given its assignment to one of two rows of
\* users: the row with id 1 has the new name, the other row its old one
C6_Witness ==
    /\ call = "updateTable"
    /\ result = ReturnString("1 row(s) updated")
    /\ "users" \in ExistingTables
    /\ Len(TableNamed("users").rows) = 2
    /\ \E i, j \in 1..2 :
          /\ TableNamed("users").rows[i] = [id |-> Num(1), name |-> Str("b")]
          /\ TableNamed("users").rows[j] = [id |-> Num(2), name |-> Str("a")]

\* the rows of a sequence that a WHERE clause does not select, in order
RECURSIVE Unselected(_, _)
Unselected(rows, where) ==
    IF Len(rows) = 0 THEN <<>>
    ELSE IF Selected(rows[1], where) THEN Unselected(Tail(rows), where)
    ELSE <<rows[1]>> \o Unselected(Tail(rows), where)

\* C7: deleteFromTable removes exactly the rows the WHERE clause selects (every
\* row without WHERE), keeps the others in their order, and returns the number
\* of rows removed.
C7_DeleteRemovesExactlyTheSelectedRows ==
    \A tableName \in ExistingTables, where \in ProbeWheres :
        LET out == deleteFromTable(databases, currentDatabase, tableName, where)
            before == TableNamed(tableName).rows
            after == RowsAfter(out, tableName)
            selected == {i \in 1..Len(before) : Selected(before[i], where)}
        IN /\ after = Unselected(before, where)
           /\ where = None => after = <<>>
           /\ out.result
              = ReturnString(NumberToString(Cardinality(selected)) \o " row(s) deleted")

\* a delete with WHERE has just removed one of two rows of users and kept the
\* row the clause (id < '2') does not select
C7_Witness ==
    /\ call = "deleteFromTable"
    /\ result = ReturnString("1 row(s) deleted")
    /\ "users" \in ExistingTables
    /\ Len(TableNamed("users").rows) = 1
    /\ Get(TableNamed("users").rows[1], "id") = Num(2)

ProbeJoins ==
    { Join("orders", "id", "user_id"), Join("orders", "ID", "ID"),
      Join("users", "user_id", "id"), Join("users", "name", "name") }

\* C8: a select with a join returns one record per pair of a left and a right
\* row whose join-column values are the same value, and nothing else.
C8_JoinReturnsOneRecordPerMatchingPair ==
    \A leftName \in ExistingTables, join \in ProbeJoins :
        join.table \in ExistingTables =>
            LET out == selectFromTable(databases, currentDatabase, leftName,
                                       <<"*">>, None, Some(join))
                left == TableNamed(leftName).rows
                right == TableNamed(join.table).rows
                pairs == {p \in (1..Len(left)) \X (1..Len(right)) :
                            Get(left[p[1]], toLowerCase(join.leftCol))
                            = Get(right[p[2]], toLowerCase(join.rightCol))}
            IN /\ out.result.kind = "rows"
               /\ Len(out.result.rows) = Cardinality(pairs)
               /\ \A r \in 1..Len(out.result.rows) :
                     \E p \in pairs :
                         out.result.rows[r] = Spread(left[p[1]], right[p[2]])
               /\ \A p \in pairs :
                     \E r \in 1..Len(out.result.rows) :
                         out.result.rows[r] = Spread(left[p[1]], right[p[2]])

\* users JOIN orders has just returned two records, both for the one user that
\* has orders; the other user, without an order, is in none of them
C8_Witness ==
    /\ call = "selectFromTable"
    /\ result.kind = "rows"
    /\ Len(result.rows) = 2
    /\ {"users", "orders"} \subseteq ExistingTables
    /\ Len(TableNamed("users").rows) = 2
    /\ Len(TableNamed("orders").rows) = 2
    /\ \A r \in 1..2 : "user_id" \in DOMAIN result.rows[r]
                       /\ "name" \in DOMAIN result.rows[r]
    /\ \E i \in 1..2 : \A r \in 1..2 :
          Get(result.rows[r], "user_id") # Get(TableNamed("users").rows[i], "id")

----------------------------------------------------------------------------
(* Claims about execute, over the scripts of SpecExec.                     *)

\* the host has the value execute returned for the k-th text of the script
Returned(k) == Len(results) >= k

\* C4: after CREATE DATABASE shop; USE shop; CREATE TABLE t (id INT, name TEXT,
\* PRIMARY KEY (id)); INSERT INTO t VALUES (1,'a'); the call INSERT INTO t
\* VALUES (1,'b'); returns a string that starts with "Error:" and names a
\* primary-key violation, and SELECT * FROM t; then returns exactly the one
\* row {id: 1, name: 'a'}.
C4_PrimaryKeyClauseTakesEffect ==
    script = PrimaryKeyScript =>
        /\ Returned(5) =>
              /\ results[5].kind = "string"
              /\ startsWith(results[5].text, "Error: PK Violation")
        /\ Returned(6) =>
              results[6] = ReturnRows(<<[id |-> Num(1), name |-> Str("a")]>>)

\* the script of C4 has run: CREATE TABLE was refused at the parenthesis after
\* PRIMARY KEY, and the SELECT finds no table t
C4_Witness ==
    /\ script = PrimaryKeyScript
    /\ Returned(6)
    /\ pc = "idle"
    /\ results[3] = ReturnString("Error: Expected RIGHT_PAREN, got LEFT_PAREN")
    /\ results[5] = ReturnString("Error: Table 't' does not exist")
    /\ results[6] = ReturnString("Error: Table 't' does not exist")

\* C9: with users = {(1,'A')} and orders = {(10,1,'X'), (11,2,'Y')}, SELECT name
\* FROM users JOIN orders ON users.id = orders.user_id; returns exactly one
\* row, the one of the pair (1,'A') and (10,1,'X').
C9_QualifiedJoinMatchesByValue ==
    script = JoinScript /\ Returned(8) =>
        results[8] = ReturnRows(<<[name |-> Str("A")]>>)

\* the script of C9 has run with every statement before the SELECT accepted,
\* and the SELECT returned two rows: one for each order, matching or not
C9_Witness ==
    /\ script = JoinScript
    /\ Returned(8)
    /\ \A k \in 1..7 : ~startsWith(results[k].text, "Error:")
    /\ results[8].kind = "rows"
    /\ Len(results[8].rows) = 2

\* C10: execute returns to its caller for every text: a call that is under way
\* comes to its return (the loop of tokenize ends only at the EOF token, so
\* every call of nextToken returns EOF or leaves the lexer further on in the
\* text, and the process is not ended), and every value returned is a sequence
\* of rows or a string.
C10_ExecuteAlwaysReturns ==
    /\ pc = "tokenize" =>
          LET next == nextToken(lexer)
          IN next.token.type = "EOF" \/ next.lexer.position > lexer.position
    /\ pc # "exited"
    /\ \A k \in 1..Len(results) : results[k].kind \in {"rows", "string"}

\* execute(".exit") is in tokenize, which has pushed the same ILLEGAL token
\* three times and has the lexer where it was at the start of the text
C10_Witness ==
    /\ pc = "tokenize"
    /\ lexer.input = ".exit"
    /\ lexer.position = 0
    /\ Len(tokens) >= 3
    /\ \A k \in 1..Len(tokens) : tokens[k].type = "ILLEGAL" /\ tokens[k].literal = "."

\* C11: tokenize comes to an end for every text and returns a finite token
\* sequence with EOF as its last token and nowhere else: while its loop runs,
\* every token pushed has used up at least one character of the text and none
\* is EOF; once it has returned, the last token is EOF, no other is, and there
\* are at most as many tokens before it as the text has characters.
C11_TokenizeEndsWithOneEof ==
    /\ pc = "tokenize" =>
          /\ Len(tokens) <= lexer.position
          /\ \A k \in 1..Len(tokens) : tokens[k].type # "EOF"
    /\ pc = "parse" =>
          /\ Len(tokens) \in 1..(Len(lexer.input) + 1)
          /\ \A k \in 1..Len(tokens) : tokens[k].type = "EOF" <=> k = Len(tokens)

\* tokenize has pushed more tokens than the text ".exit" has characters, and
\* has not reached an EOF token
C11_Witness ==
    /\ pc = "tokenize"
    /\ lexer.input = ".exit"
    /\ Len(tokens) > Len(lexer.input)
    /\ \A k \in 1..Len(tokens) : tokens[k].type # "EOF"

----------------------------------------------------------------------------
(* Claims about the file.                                                  *)

\* the file holds the serialization of what is in memory; an engine that
\* has nothing in memory and no file counts as such
Mirrors == file = FileOf(databases) \/ (file = NoFile /\ databases = <<>>)

\* the line saveToFile logs when the write throws
WriteFailed(lines) == Len(lines) > 0 /\ lines[1] = "Critical: Failed to persist data"

\* the calls that call saveToFile
MutatingMethods ==
    {"createDatabase", "createTable", "insertIntoTable", "updateTable", "deleteFromTable"}

\* C12: the file mirrors the whole in-memory state after every mutating call
\* whose write succeeds: a step in which no write fails, and which either
\* starts with the file mirroring memory or rewrites the file, ends with the
\* file equal to the serialization of every database, table, column list,
\* constraint set and row sequence (indices left out).
C12_FileMirrorsMemoryAfterEachWrite ==
    [][ ~WriteFailed(logged') /\ (Mirrors \/ file' # file) => Mirrors' ]_vars

\* an update that changed a row was written: the file holds the new value
C12_Witness ==
    /\ call = "updateTable"
    /\ result = ReturnString("1 row(s) updated")
    /\ ~WriteFailed(logged)
    /\ file = FileOf(databases)
    /\ \E t \in 1..Len(file.data[1].tables) :
          \E i \in 1..Len(file.data[1].tables[t].rows) :
             Get(file.data[1].tables[t].rows[i], "name") = Str("b")

\* every column of two rows reads the same value
SameRow(a, b) == \A k \in (DOMAIN a) \cup (DOMAIN b) : Get(a, k) = Get(b, k)

\* two tables have the same name, columns, constraints and rows in the same
\* order, the rows compared with same(a, b)
SameTable(a, b, strict) ==
    /\ a.name = b.name
    /\ a.columns = b.columns
    /\ a.constraints = b.constraints
    /\ Len(a.rows) = Len(b.rows)
    /\ \A i \in 1..Len(a.rows) :
          IF strict THEN a.rows[i] = b.rows[i] ELSE SameRow(a.rows[i], b.rows[i])

\* two database maps have the same databases and tables in the same order
SameContent(dbs1, dbs2, strict) ==
    /\ Len(dbs1) = Len(dbs2)
    /\ \A d \in 1..Len(dbs1) :
          /\ dbs1[d].name = dbs2[d].name
          /\ Len(dbs1[d].tables) = Len(dbs2[d].tables)
          /\ \A t \in 1..Len(dbs1[d].tables) :
                SameTable(dbs1[d].tables[t], dbs2[d].tables[t], strict)

\* SHOW TABLES and SELECT * of every table give the same in both engines once
\* a database of that name is selected
SameAnswers(dbs1, dbs2, strict) ==
    \A d \in 1..Len(dbs1) :
        LET cur == Some(dbs1[d].name)
        IN /\ showTables(dbs1, cur).result = showTables(dbs2, cur).result
           /\ \A t \in 1..Len(dbs1[d].tables) :
                 LET r1 == selectFromTable(dbs1, cur, dbs1[d].tables[t].name,
                                           <<"*">>, None, None).result
                     r2 == selectFromTable(dbs2, cur, dbs1[d].tables[t].name,
                                           <<"*">>, None, None).result
                 IN /\ r1.kind = "rows" /\ r2.kind = "rows"
                    /\ Len(r1.rows) = Len(r2.rows)
                    /\ \A i \in 1..Len(r1.rows) :
                          IF strict THEN r1.rows[i] = r2.rows[i]
                          ELSE SameRow(r1.rows[i], r2.rows[i])

\* no table has an index
NoIndices(dbs) ==
    \A d \in 1..Len(dbs) : \A t \in 1..Len(dbs[d].tables) :
        dbs[d].tables[t].indices = <<>>

\* the engine is constructed again from a file that mirrors memory
Reloads == call' = "constructor" /\ Mirrors

C14_FailedWriteKeepsMutationAndOldFile ==
    [][ /\ WriteFailed(logged') =>
              /\ call' \in MutatingMethods
              /\ \E c \in DiskCalls :
                    LET out == Invoke(databases, currentDatabase, c)
                    IN /\ c.method = call'
                       /\ out.save
                       /\ result' = out.result
                       /\ result'.kind = "string"
                       /\ databases' = out.databases
                       /\ Tail(logged') = out.logged
              /\ file' = file
        /\ file' # file => ~WriteFailed(logged') /\ file' = FileOf(databases') ]_vars

\* an insert whose write failed: the call reported the row, the row is in
\* memory, the failure is logged and the file does not have the row
C14_Witness ==
    /\ call = "insertIntoTable"
    /\ result = ReturnString("1 row inserted")
    /\ WriteFailed(logged)
    /\ file.exists
    /\ file # FileOf(databases)
    /\ Len(databases) > 0
    /\ Len(file.data) > 0
    /\ \E t \in 1..Len(databases[1].tables) :
          /\ t <= Len(file.data[1].tables)
          /\ Len(databases[1].tables[t].rows) > Len(file.data[1].tables[t].rows)

----------------------------------------------------------------------------
(* Claims about the current database.                                      *)

\* the caller that sent a text
CallerOf(text) ==
    IF \E k \in 1..Len(CallerTexts.A) : CallerTexts.A[k] = text THEN "A"
    ELSE IF \E k \in 1..Len(CallerTexts.B) : CallerTexts.B[k] = text THEN "B"
    ELSE "setup"

\* the database a USE text names, for the databases that exist
UseTargets == [a |-> "USE a;", b |-> "USE b;"]

\* the places before p of the USE texts of the callers cs that name a database
\* that exists
UsesBefore(p, cs) ==
    {k \in 1..(p - 1) :
        /\ k <= Len(script)
        /\ CallerOf(script[k]) \in cs
        /\ \E d \in DOMAIN UseTargets : UseTargets[d] = script[k]}

\* the database selected by the last of these, if any
LastSelection(p, cs) ==
    IF UsesBefore(p, cs) = {} THEN None
    ELSE LET last == CHOOSE k \in UsesBefore(p, cs) : \A j \in UsesBefore(p, cs) : j <= k
         IN Some(CHOOSE d \in DOMAIN UseTargets : UseTargets[d] = script[last])

\* the databases other than the one named d are the same in both maps
OthersUntouched(dbs1, dbs2, d) ==
    /\ MapKeys(dbs1) = MapKeys(dbs2)
    /\ \A k \in 1..Len(dbs1) : dbs1[k].name # d => dbs1[k] = dbs2[k]

\* what the text that is about to be parsed does
ExecuteOutcome == Caught(ParseAndDispatch(databases, currentDatabase, tokens))

\* C15: there is one selection for all callers: the current database is the
\* one named by the last USE of any caller, whichever caller sends the next
\* text; a table statement of a caller creates its table in, inserts into and
\* lists the tables of that database and touches no other, also when the
\* caller's own last USE named another database.
C15_SelectionIsSharedByAllCallers ==
    /\ currentDatabase = LastSelection(pos, {"A", "B"})
    /\ pc = "parse" /\ currentDatabase # None =>
          LET here == currentDatabase[1]
              out == ExecuteOutcome
          IN /\ OthersUntouched(databases, out.databases, here)
             /\ script[pos] = "CREATE TABLE t (id INT);" =>
                   MapHas(TablesOf(out.databases, Some(here)), "t")
             /\ script[pos] = "INSERT INTO t VALUES (1);" =>
                   IF MapHas(TablesOf(databases, Some(here)), "t")
                   THEN /\ out.result = ReturnString("1 row inserted")
                        /\ Len(MapGet(TablesOf(out.databases, Some(here)), "t").rows)
                              = Len(MapGet(TablesOf(databases, Some(here)), "t").rows) + 1
                   ELSE out.result = ReturnString("Error: Table 't' does not exist")
             /\ script[pos] = "SHOW TABLES;" =>
                   out.result.text \in
                       {JoinLines(MapKeys(TablesOf(databases, Some(here)))),
                        "No tables found"}

\* caller A said USE a, caller B then said USE b, and A's CREATE TABLE has made
\* its table in database b and not in database a
C15_Witness ==
    /\ pc = "idle"
    /\ LastSelection(pos, {"A"}) = Some("a")
    /\ LastSelection(pos, {"A", "B"}) = Some("b")
    /\ MapHas(TablesOf(databases, Some("b")), "t")
    /\ ~MapHas(TablesOf(databases, Some("a")), "t")

\* C16: createDatabase with a name that exists throws 'already exists' and
\* changes neither the database map, nor any table or row, nor the selection,
\* nor the file; with a new name it adds a database without tables after the
\* others, leaves the rest as it was and writes the file.
C16_CreateDatabaseRejectsExistingName ==
    \A name \in {"shop", "logs"} :
        LET out == createDatabase(databases, currentDatabase, name)
        IN IF \E d \in 1..Len(databases) : databases[d].name = name
           THEN /\ out.result = Thrown("Database '" \o name \o "' already exists")
                /\ ChangesNothing(out)
           ELSE /\ out.result =
                      ReturnString("Database '" \o name \o "' created successfully")
                /\ out.databases = Append(databases, [name |-> name, tables |-> <<>>])
                /\ out.currentDatabase = currentDatabase
                /\ NextFile(out, TRUE) = FileOf(out.databases)
                /\ NextFile(out, FALSE) = file

\* createDatabase was called with the name of a database that has a table
\* with rows, in memory and in the file, and has thrown
C16_Witness ==
    /\ call = "createDatabase"
    /\ result = Thrown("Database 'shop' already exists")
    /\ file = FileOf(databases)
    /\ \E t \in 1..Len(databases[1].tables) : Len(databases[1].tables[t].rows) = 2

\* C17: a USE of a database that exists makes it the current one and answers
\* so; a USE of a name that does not exist answers with the error and leaves
\* the selection as it was; nothing else changes the selection, so it stays
\* in force over the execute calls that follow until the next USE that
\* succeeds.
C17_SelectionChangesOnlyBySuccessfulUse ==
    [][ IF pc = "parse" /\ \E d \in DOMAIN UseTargets : UseTargets[d] = script[pos]
        THEN LET d == CHOOSE n \in DOMAIN UseTargets : UseTargets[n] = script[pos]
             IN /\ currentDatabase' = Some(d)
                /\ results' = Append(results, ReturnString("Using database '" \o d \o "'"))
        ELSE /\ currentDatabase' = currentDatabase
             /\ pc = "parse" /\ script[pos] = "USE nowhere;" =>
                   results' = Append(results,
                       ReturnString("Error: Database 'nowhere' does not exist")) ]_vars

\* USE nowhere has just failed while database b was selected, and b still is
C17_Witness ==
    /\ pc = "idle"
    /\ pos > 1
    /\ script[pos - 1] = "USE nowhere;"
    /\ results[Len(results)] = ReturnString("Error: Database 'nowhere' does not exist")
    /\ currentDatabase = Some("b")

----------------------------------------------------------------------------
(* Claims about tables that are created again, and about indices.          *)

\* the createTable and the other calls of the host of SpecIndex
CallsOf(method) == {c \in IndexCalls : c.method = method}

\* C18: createTable with the name of a table of the current database does
\* not fail: it returns the success message and puts a new table in the
\* place of the old one, with the columns and constraints given (names in
\* lower case), no rows and no index; the other tables are as they were, and
\* the file written has the table without rows.
C18_CreateTableReplacesExistingTable ==
    \A c \in CallsOf("createTable") :
        c.name \in ExistingTables =>
            LET out == Invoke(databases, currentDatabase, c)
                tables == TablesOf(out.databases, out.currentDatabase)
                place == MapIndex(CurrentTables, c.name)
            IN /\ out.result =
                     ReturnString("Table '" \o c.name \o "' created successfully.")
               /\ out.currentDatabase = currentDatabase
               /\ Len(tables) = Len(CurrentTables)
               /\ \A k \in 1..Len(tables) : k # place => tables[k] = CurrentTables[k]
               /\ tables[place] =
                     [name |-> c.name,
                      columns |-> [k \in 1..Len(c.columns) |->
                                     [name |-> toLowerCase(c.columns[k].name),
                                      type |-> c.columns[k].type]],
                      constraints |->
                         [primaryKey |-> IF c.constraints.primaryKey = None THEN None
                                         ELSE Some(toLowerCase(c.constraints.primaryKey[1])),
                          foreignKeys |-> <<>>],
                      rows |-> <<>>,
                      indices |-> <<>>]
               /\ NextFile(out, TRUE) = FileOf(out.databases)
               /\ MapGet(MapGet(NextFile(out, TRUE).data, currentDatabase[1]).tables,
                         c.name).rows = <<>>

\* the table users has two rows and an index, and the file has the two rows
C18_Witness ==
    /\ "users" \in ExistingTables
    /\ Len(TableNamed("users").rows) = 2
    /\ TableNamed("users").indices # <<>>
    /\ file = FileOf(databases)
    /\ Len(MapGet(file.data[1].tables, "users").rows) = 2

\* the row object an index holds, as it is now
HeldRow(table, held) == IF held.at > 0 THEN table.rows[held.at] ELSE held.row

\* the indices of a table: for each its column and, value by value in the
\* order of the Map, the rows listed under the value as they are now
HeldRows(table) ==
    [x \in 1..Len(table.indices) |->
        [name |-> table.indices[x].name,
         index |-> [g \in 1..Len(table.indices[x].index) |->
                      [key |-> table.indices[x].index[g].key,
                       rows |-> [r \in 1..Len(table.indices[x].index[g].rows) |->
                                   HeldRow(table, table.indices[x].index[g].rows[r])]]]]]

\* the same with the number of the rows listed in the place of the rows
Grouping(table) ==
    [x \in 1..Len(table.indices) |->
        [name |-> table.indices[x].name,
         index |-> [g \in 1..Len(table.indices[x].index) |->
                      [key |-> table.indices[x].index[g].key,
                       size |-> Len(table.indices[x].index[g].rows)]]]]

\* the database map with the indices of every table taken away
WithoutIndices(dbs) ==
    [d \in 1..Len(dbs) |->
        [name |-> dbs[d].name,
         tables |-> [t \in 1..Len(dbs[d].tables) |->
                       [dbs[d].tables[t] EXCEPT !.indices = <<>>]]]]

ProbeColumns == {<<"*">>, <<"Name">>, <<"id", "name">>}

----------------------------------------------------------------------------
(* Claims about the statement that creates an index.                       *)

\* C20: with a database selected and the table t in it, execute of CREATE
\* INDEX ON t (c); is accepted by the parser, reaches createIndex(t, c) and
\* returns the confirmation of the index, not a string that starts with
\* "Error: "; the table then has the index on c.
C20_CreateIndexOnIsAccepted ==
    script = IndexScript /\ Returned(5) =>
        /\ results[5] = ReturnString("Index created on t(c)")
        /\ Len(results) = 5 /\ pc = "idle" =>
              \E x \in 1..Len(MapGet(TablesOf(databases, currentDatabase), "t").indices) :
                  MapGet(TablesOf(databases, currentDatabase), "t").indices[x].name = "c"

\* with shop selected and the table t in it, CREATE INDEX ON t (c); was
\* refused by the parser at the word ON and the table has no index; the same
\* statement without ON was accepted and has built the index
C20_Witness ==
    /\ script = IndexScript
    /\ Returned(6)
    /\ pc = "idle"
    /\ \A k \in 1..4 : ~startsWith(results[k].text, "Error:")
    /\ results[5] = ReturnString("Error: Expected IDENTIFIER, got ON")
    /\ results[6] = ReturnString("Index created on t(c)")
    /\ currentDatabase = Some("shop")

----------------------------------------------------------------------------
(* Claims about dot commands.                                              *)

\* the loop of tokenize is where it was a turn ago: nextToken has returned a
\* token that is not EOF and has left the lexer as it found it
TokenizeStands ==
    /\ pc = "tokenize"
    /\ Len(tokens) > 0
    /\ nextToken(lexer).lexer = lexer
    /\ nextToken(lexer).token = tokens[Len(tokens)]
    /\ nextToken(lexer).token.type # "EOF"

\* what the rest of execute makes of the tokens, once tokenize has returned
RestOfExecute == Caught(ParseAndDispatch(databases, currentDatabase, tokens))

\* C21: execute of .exit or of .quit comes to the end of the process, whatever
\* the engine holds, and returns nothing to its caller: the loop of tokenize
\* does not stand, the tokens it returns make executeDotCommand end the
\* process, and the call never comes back to the host.
C21_ExitEndsTheProcess ==
    lexer.input \in {".exit", ".quit"} =>
        /\ ~TokenizeStands
        /\ pc = "parse" => RestOfExecute.result = ProcessExit
        /\ pc # "idle"

\* execute(".quit") is in the loop of tokenize, which stands: the process has
\* not ended and will not
C21_Witness ==
    /\ script = QuitScript
    /\ lexer.input = ".quit"
    /\ TokenizeStands
    /\ tokens[Len(tokens)].type = "ILLEGAL"
    /\ tokens[Len(tokens)].literal = "."
    /\ databases # <<>>

\* C22: execute of a dot command other than .exit, .quit and .clear returns
\* a string that starts with "Unknown command", not one that starts with
\* "Error: ", and leaves the engine as it was: the loop of tokenize does not
\* stand, and the tokens it returns make the rest of execute return that
\* string and change nothing.
C22_OtherDotCommandsAreUnknownCommands ==
    lexer.input = ".help" =>
        /\ ~TokenizeStands
        /\ pc = "parse" =>
              /\ RestOfExecute.result.kind = "string"
              /\ startsWith(RestOfExecute.result.text, "Unknown command")
              /\ ChangesNothing(RestOfExecute)
        /\ pc = "idle" => startsWith(results[Len(results)].text, "Unknown command")

\* execute(".help") is in the loop of tokenize, which stands; .help is no
\* command of the lexer's table, so its token could only be ILLEGAL
C22_Witness ==
    /\ script = HelpScript
    /\ lexer.input = ".help"
    /\ TokenizeStands
    /\ getDotCommandType(".help") = None
    /\ results = <<ReturnString("Database 'shop' created successfully")>>

----------------------------------------------------------------------------
(* Claims about the audit log.  logged holds the lines the last call has    *)
(* appended with fs.appendFileSync, which adds to the end of the file and   *)
(* leaves what was there.                                                   *)

\* C23: every call of a Storage Engine method appends exactly one line to
\* the audit log, whether it succeeds or fails validation (duplicate
\* database, absent database or table, no database selected, primary-key or
\* foreign-key violation).
C23_EveryCallLogsOneLine ==
    [][ Len(logged') = 1 ]_vars

\* an insert was refused for its primary key and has logged nothing
C23_Witness ==
    /\ call = "insertIntoTable"
    /\ result.kind = "throw"
    /\ startsWith(result.text, "PK Violation")
    /\ logged = <<>>

----------------------------------------------------------------------------
(* Claims about the semicolon.                                             *)

StatementKeywords == {"SELECT", "INSERT", "UPDATE", "DELETE", "CREATE", "USE", "SHOW"}

\* the tokens are those of a statement of the script of unterminated
\* statements that has no semicolon where the statement ends
LacksSemicolon ==
    /\ script = UnterminatedScript
    /\ tokens[1].type \in StatementKeywords
    /\ \/ tokens[Len(tokens) - 1].type # "SEMICOLON"
       \/ \E k \in 2..(Len(tokens) - 1) : tokens[k].type \in StatementKeywords

----------------------------------------------------------------------------
(* Claims about a file that is missing or damaged.                         *)

\* the step is a run of the constructor
Constructs == call' = "constructor" /\ file' = file /\ currentDatabase' = None

\* C25: constructing the engine when the file is missing or corrupt does not
\* fail: the engine has no databases and no selection, and has logged the
\* failure to load (for a missing file there is none to log) and the line of
\* the constructor.
C25_MissingOrCorruptFileStartsEmpty ==
    [][ Constructs /\ (~file.exists \/ file.damage # <<>>) =>
            /\ databases' = <<>>
            /\ currentDatabase' = None
            /\ logged' = (IF file.exists THEN <<"Load Error">> ELSE <<>>)
                            \o <<"Database Engine Started.">> ]_vars

\* the engine was constructed from a file whose second database is null: it
\* has logged the error and has the first database, with its table and row
C25_Witness ==
    /\ call = "constructor"
    /\ file.damage = <<2>>
    /\ logged = <<"Load Error", "Database Engine Started.">>
    /\ Len(databases) = 1
    /\ databases[1].tables # <<>>
    /\ databases[1].tables[1].rows # <<>>
    /\ currentDatabase = None

----------------------------------------------------------------------------
(* Claims about calls of execute that fail.                                *)

\* the step is the return of execute with a string that starts with "Error: "
ReturnsError ==
    /\ pc = "parse"
    /\ pc' = "idle"
    /\ results'[Len(results')].kind = "string"
    /\ startsWith(results'[Len(results')].text, "Error: ")

\* C26: a call of execute that returns a string starting with "Error: ",
\* for a failure of the parser or of the engine in a statement of any kind,
\* leaves the databases with their tables, rows and indices, the selection
\* and the file as they were before the call.
C26_FailedExecuteChangesNothing ==
    [][ ReturnsError => UNCHANGED <<databases, currentDatabase, file>> ]_vars

\* the script of failing statements has run: twelve of them returned an
\* error, and the table, its row, its index, the selection and the file are
\* those of the statements that succeeded
C26_Witness ==
    /\ script = FailingScript
    /\ pc = "idle"
    /\ Returned(19)
    /\ \A k \in {1, 2} \cup (8..18) : startsWith(results[k].text, "Error: ")
    /\ results[19] = ReturnRows(<<[id |-> Num(1), name |-> Str("a")]>>)
    /\ currentDatabase = Some("shop")
    /\ Len(databases[1].tables[1].indices) = 1
    /\ file = FileOf(databases)

----------------------------------------------------------------------------
(* Claims about foreign keys after the insert.                             *)

\* the pairs of a table with a foreign key and the other table it refers to
References ==
    UNION { {<<child, TableNamed(child).constraints.foreignKeys[f]>> :
                f \in 1..Len(TableNamed(child).constraints.foreignKeys)} :
            child \in ExistingTables }

\* the table of that name in the state an outcome leads to
TableAfter(out, tableName) ==
    MapGet(TablesOf(out.databases, out.currentDatabase), tableName)

\* C27: foreign keys are checked when a row is inserted and at no other
\* time: a delete from the table a foreign key refers to, or an update of
\* it, succeeds whatever rows of the other table refer to its rows, and
\* leaves the other table as it is, rows with unmatched values included.
C27_ForeignKeysAreCheckedAtInsertOnly ==
    \A ref \in References :
        ref[2].refTable \in ExistingTables \ {ref[1]} =>
            \A where \in ProbeWheres :
                /\ LET out == deleteFromTable(databases, currentDatabase,
                                              ref[2].refTable, where)
                   IN /\ out.result.kind = "string"
                      /\ RowsAfter(out, ref[2].refTable)
                            = (IF where = None THEN <<>>
                               ELSE DeleteFilter(TableNamed(ref[2].refTable).rows,
                                                 where[1], 1))
                      /\ TableAfter(out, ref[1]) = TableNamed(ref[1])
                /\ \A updates \in ProbeUpdates :
                      LET out == updateTable(databases, currentDatabase,
                                             ref[2].refTable, updates, where)
                      IN /\ out.result.kind = "string"
                         /\ TableAfter(out, ref[1]) = TableNamed(ref[1])

\* the one row of users has just been deleted, and orders, whose user_id
\* refers to users, still has a row with user_id 1
C27_Witness ==
    /\ call = "deleteFromTable"
    /\ result = ReturnString("1 row(s) deleted")
    /\ {"users", "orders"} \subseteq ExistingTables
    /\ TableNamed("users").rows = <<>>
    /\ \E f \in 1..Len(TableNamed("orders").constraints.foreignKeys) :
          /\ TableNamed("orders").constraints.foreignKeys[f].column = "user_id"
          /\ TableNamed("orders").constraints.foreignKeys[f].refTable = "users"
    /\ \E i \in 1..Len(TableNamed("orders").rows) :
          Get(TableNamed("orders").rows[i], "user_id") = Num(1)

----------------------------------------------------------------------------
(* Claims about the primary key and the WHERE clause.                      *)

\* the rows SELECT * FROM tableName WHERE column = v returns
RowsWhereEquals(tableName, column, v) ==
    selectFromTable(databases, currentDatabase, tableName, <<"*">>,
                    Some(Where(column, "=", v)), None).result.rows

\* C28: in every state reached by successful inserts, for a table with a
\* declared primary key pk and every literal v, SELECT * FROM t WHERE pk = v
\* returns at most one row.
C28_PrimaryKeyLookupFindsAtMostOneRow ==
    \A tableName \in ExistingTables :
        TableNamed(tableName).constraints.primaryKey # None =>
            \A v \in ProbeValues :
                Len(RowsWhereEquals(tableName,
                        TableNamed(tableName).constraints.primaryKey[1], v)) <= 1

\* users, with primary key id, has taken the row with id 1 and the row with
\* id '1', and the lookup of id = 1 returns both
C28_Witness ==
    /\ call = "insertIntoTable"
    /\ result = ReturnString("1 row inserted")
    /\ "users" \in ExistingTables
    /\ TableNamed("users").constraints.primaryKey = Some("id")
    /\ {Get(TableNamed("users").rows[i], "id") : i \in 1..Len(TableNamed("users").rows)}
          = {Num(1), Str("1")}
    /\ Len(RowsWhereEquals("users", "id", Num(1))) = 2
    /\ Len(RowsWhereEquals("users", "id", Str("1"))) = 2

\* the WHERE clauses of the probes, one with an operator the parser does not
\* let through and one with a qualified column among them
WhereProbes ==
    ProbeWheres \cup { Some(Where("id", ">=", Num(2))), Some(Where("ID", "=", Num(2))),
                       Some(Where("users.id", "=", Num(1))) }

\* the rows at the places S, in their order
Pick(rows, S) ==
    LET picked[i \in 0..Len(rows)] ==
            IF i = 0 THEN <<>>
            ELSE IF i \in S THEN Append(picked[i - 1], rows[i]) ELSE picked[i - 1]
    IN picked[Len(rows)]

\* C29: UPDATE and DELETE apply a WHERE clause as SELECT does: for every
\* table and every WHERE clause w (or none), the rows deleteFromTable(t, w)
\* removes are the rows selectFromTable(t, ['*'], w) returns in the same
\* state, the rows it keeps are the others, and the count updateTable(t, a, w)
\* reports, like the count of the delete, is the number of rows the select
\* returns.
C29_UpdateAndDeleteSelectAsSelectDoes ==
    \A tableName \in ExistingTables, where \in WhereProbes :
        LET rows == TableNamed(tableName).rows
            selected == selectFromTable(databases, currentDatabase, tableName,
                                        <<"*">>, where, None).result.rows
            deleted == deleteFromTable(databases, currentDatabase, tableName, where)
        IN /\ \E S \in SUBSET (1..Len(rows)) :
                 /\ Pick(rows, S) = selected
                 /\ Pick(rows, (1..Len(rows)) \ S) = RowsAfter(deleted, tableName)
           /\ deleted.result
                 = ReturnString(NumberToString(Len(selected)) \o " row(s) deleted")
           /\ \A updates \in ProbeUpdates :
                 updateTable(databases, currentDatabase, tableName, updates,
                             where).result
                    = ReturnString(NumberToString(Len(selected)) \o " row(s) updated")

\* users has the rows with id '1' and id 2: WHERE id = 1 selects the first by
\* the loose equality of all three methods, and no WHERE selects both
C29_Witness ==
    /\ call = "insertIntoTable"
    /\ "users" \in ExistingTables
    /\ Len(TableNamed("users").rows) = 2
    /\ Get(TableNamed("users").rows[1], "id") = Str("1")
    /\ Get(TableNamed("users").rows[2], "id") = Num(2)
    /\ RowsWhereEquals("users", "id", Num(1)) = <<TableNamed("users").rows[1]>>
    /\ deleteFromTable(databases, currentDatabase, "users",
                       Some(Where("id", "=", Num(1)))).result
          = ReturnString("1 row(s) deleted")

----------------------------------------------------------------------------
(* Claims about table-qualified column names.                              *)

\* C30: a column name qualified with its table refers to the column: on the
\* table t with the column c, SELECT t.c FROM t WHERE t.c = 1; returns the
\* rows, with the values of c, that SELECT c FROM t WHERE c = 1; returns.
C30_QualifiedNameRefersToTheColumn ==
    script = QualifiedScript /\ Returned(6) =>
        /\ results[5] = ReturnRows(<<[c |-> Num(1)]>>)
        /\ results[6].kind = "rows"
        /\ Len(results[6].rows) = Len(results[5].rows)
        /\ \A i \in 1..Len(results[6].rows) :
              Get(results[6].rows[i], "c") = Get(results[5].rows[i], "c")
                 \/ Get(results[6].rows[i], "t.c") = Get(results[5].rows[i], "c")

\* the statement with the plain name found the row; with t.c in the WHERE
\* clause no row is found, and with t.c in the column list alone the row comes
\* back without a value, under the name t.c
C30_Witness ==
    /\ script = QualifiedScript
    /\ pc = "idle"
    /\ Returned(8)
    /\ results[5] = ReturnRows(<<[c |-> Num(1)]>>)
    /\ results[6] = ReturnRows(<<>>)
    /\ results[7].kind = "rows"
    /\ Len(results[7].rows) = 1
    /\ Get(results[7].rows[1], "t.c") = Undefined
    /\ Get(results[7].rows[1], "c") = Undefined
    /\ results[8] = ReturnRows(<<>>)

----------------------------------------------------------------------------
(* Claims about the selection, reads, indices and names.                   *)

\* the call failed with 'No database selected' and did nothing else
NoSelection(out) ==
    /\ out.result = Thrown("No database selected")
    /\ out.logged = <<>>
    /\ ChangesNothing(out)

ProbeTables == {"users", "orders", "nowhere"}

OptionalJoins == {None} \cup {Some(j) : j \in ProbeJoins}

\* C31: while no database is selected (after construction, also after a
\* construction that loaded databases from the file), createTable, showTables,
\* insertIntoTable, selectFromTable, updateTable, deleteFromTable and
\* createIndex fail with 'No database selected', whatever their arguments, and
\* change neither databases, selection nor file; createDatabase of a new name,
\* useDatabase of a name of the map and showDatabases succeed.
C31_NothingWorksOnTablesWithoutSelection ==
    currentDatabase = None =>
        /\ \A c \in CreateTableCalls :
              NoSelection(createTable(databases, currentDatabase, c.name, c.columns,
                                     c.constraints))
        /\ NoSelection(showTables(databases, currentDatabase))
        /\ \A t \in ProbeTables :
              /\ \A v \in ProbeValueLists :
                    NoSelection(insertIntoTable(databases, currentDatabase, t, v))
              /\ \A cols \in ProbeColumns, w \in ProbeWheres, j \in OptionalJoins :
                    NoSelection(selectFromTable(databases, currentDatabase, t, cols, w, j))
              /\ \A u \in ProbeUpdates, w \in ProbeWheres :
                    NoSelection(updateTable(databases, currentDatabase, t, u, w))
              /\ \A w \in ProbeWheres :
                    NoSelection(deleteFromTable(databases, currentDatabase, t, w))
              /\ \A col \in {"id", "Name"} :
                    NoSelection(createIndex(databases, currentDatabase, t, col))
        /\ \A name \in {"shop", "logs"} :
              /\ ~MapHas(databases, name) =>
                    LET out == createDatabase(databases, currentDatabase, name)
                    IN /\ out.result.kind = "string"
                       /\ MapHas(out.databases, name)
                       /\ out.currentDatabase = None
              /\ MapHas(databases, name) =>
                    LET out == useDatabase(databases, currentDatabase, name)
                    IN /\ out.result.kind = "string"
                       /\ out.currentDatabase = Some(name)
                       /\ out.databases = databases
        /\ LET out == showDatabases(databases, currentDatabase)
           IN out.result.kind = "string" /\ ChangesNothing(out)

\* an engine constructed from a file with a table that has a row: nothing is
\* selected
C31_Witness ==
    /\ call = "constructor"
    /\ currentDatabase = None
    /\ \E i \in 1..Len(databases) :
          \E k \in 1..Len(databases[i].tables) :
              Len(databases[i].tables[k].rows) > 0

\* C32: selectFromTable, whatever its arguments (with or without WHERE, with
\* or without JOIN, '*' or named columns) and whether it returns rows or
\* throws, leaves databases (tables, rows, indices), selection and file as they
\* were and does not call saveToFile; it throws when the primary table is not
\* in the current database.
C32_SelectIsReadOnly ==
    \A t \in ProbeTables, cols \in {<<"*">>, <<"Name", "id">>},
       w \in {None, Some(Where("ID", "=", Num(1)))},
       j \in {None, Some(Join("orders", "id", "user_id")),
                    Some(Join("users", "name", "name"))} :
        LET out == selectFromTable(databases, currentDatabase, t, cols, w, j)
        IN /\ ChangesNothing(out)
           /\ ~out.save
           /\ out.result.kind \in {"rows", "throw"}
           /\ t \notin ExistingTables => out.result.kind = "throw"
           /\ (currentDatabase # None /\ t \notin ExistingTables) =>
                 out.result = Thrown("Table '" \o t \o "' does not exist")

\* a select with a join has just returned records while both tables have rows
C32_Witness ==
    /\ call = "selectFromTable"
    /\ result.kind = "rows"
    /\ Len(result.rows) > 0
    /\ {"users", "orders"} \subseteq ExistingTables
    /\ \E i \in 1..Len(result.rows) :
          {"name", "user_id"} \subseteq DOMAIN result.rows[i]
    /\ Len(TableNamed("users").rows) > 0
    /\ Len(TableNamed("orders").rows) > 0

\* the number of rows of a table that a WHERE clause selects
Matches(tableName, where) ==
    Cardinality({i \in 1..Len(TableNamed(tableName).rows) :
                    Selected(TableNamed(tableName).rows[i], where)})

\* the outcome of an update or a delete that found no row: nothing in memory
\* changed, no write, no line in the log
QuietOutcome(out) ==
    /\ ~out.save
    /\ out.logged = <<>>
    /\ out.databases = databases
    /\ \A ok \in BOOLEAN : NextFile(out, ok) = file

\* the outcome of an update or a delete that found rows: one write of the
\* state the call leaves, one line in the log
SavedOutcome(out) ==
    /\ out.save
    /\ Len(out.logged) = 1
    /\ NextFile(out, TRUE) = FileOf(out.databases)

PlacesOf(group) == [r \in 1..Len(group.rows) |-> group.rows[r].at]

\* a sequence of places is in table order
Ascending(places) == \A a, b \in 1..Len(places) : a < b => places[a] < places[b]

\* an index of a table groups the rows the table has now: its keys are the
\* distinct values of the column, each once; the list of a key holds exactly
\* the rows with that value, in table order
GroupsTheRows(table, idx) ==
    LET col == idx.name
        groups == idx.index
    IN /\ {groups[g].key : g \in 1..Len(groups)}
            = {Get(table.rows[k], col) : k \in 1..Len(table.rows)}
       /\ \A g, h \in 1..Len(groups) : groups[g].key = groups[h].key => g = h
       /\ \A g \in 1..Len(groups) :
             /\ Ascending(PlacesOf(groups[g]))
             /\ {groups[g].rows[r].at : r \in 1..Len(groups[g].rows)}
                   = {k \in 1..Len(table.rows) :
                         StrictEquals(Get(table.rows[k], col), groups[g].key)}
       /\ \A k \in 1..Len(table.rows) :
             Cardinality({<<g, r>> \in (1..Len(groups)) \X (1..MaxRows) :
                             /\ r <= Len(groups[g].rows)
                             /\ groups[g].rows[r].at = k}) = 1

IndexColumns == {"Name", "ID", "id", "code"}

\* C34: when createIndex(t, c) returns, the table has one index under the
\* lower-cased c, whose keys are the distinct values of the column, each
\* listing exactly the rows of the table with that value, in table order,
\* every row in exactly one list; an index on c that was there before is
\* replaced by it, in its place; rows and the other indices are as they were.
C34_CreateIndexGroupsTheRowsOfTheMoment ==
    \A t \in ExistingTables, c \in IndexColumns :
        LET out == createIndex(databases, currentDatabase, t, c)
            before == TableNamed(t)
            after == TableAfter(out, t)
            col == toLowerCase(c)
        IN /\ out.result = ReturnString("Index created on " \o t \o "(" \o col \o ")")
           /\ after.rows = before.rows
           /\ Cardinality({x \in 1..Len(after.indices) : after.indices[x].name = col}) = 1
           /\ GroupsTheRows(after, MapGet(after.indices, col))
           /\ Len(after.indices) = Len(before.indices)
                                     + (IF MapHas(before.indices, col) THEN 0 ELSE 1)
           /\ \A x \in 1..Len(before.indices) :
                 IF before.indices[x].name = col
                 THEN after.indices[x].name = col
                 ELSE after.indices[x] = before.indices[x]

\* createIndex has just built the index on name a second time: the index is
\* the first of the table's indices, as when it was first built, and lists the
\* two rows of the table under 'a', while the index on id, built after it,
\* lists one row only
C34_Witness ==
    /\ call = "createIndex"
    /\ "users" \in ExistingTables
    /\ Len(TableNamed("users").rows) = 2
    /\ Len(TableNamed("users").indices) = 2
    /\ TableNamed("users").indices[1].name = "name"
    /\ TableNamed("users").indices[2].name = "id"
    /\ Len(TableNamed("users").indices[1].index) = 1
    /\ TableNamed("users").indices[1].index[1].key = Str("a")
    /\ PlacesOf(TableNamed("users").indices[1].index[1]) = <<1, 2>>
    /\ Len(TableNamed("users").indices[2].index) = 1
    /\ PlacesOf(TableNamed("users").indices[2].index[1]) = <<1>>

\* C35: in every state the selection is empty or names a database of the
\* engine's map, whose entry is the one the selection works on: a table
\* created through the selection is in that entry of the map and, when the
\* write succeeded, in the file; an engine that has just been constructed,
\* with or without a file, has no selection.
C35_SelectionIsEmptyOrInTheMap ==
    /\ currentDatabase = None \/ MapHas(databases, currentDatabase[1])
    /\ call = "constructor" => currentDatabase = None
    /\ (call = "createTable" /\ result.kind = "string") =>
          /\ currentDatabase # None
          /\ result = ReturnString("Table 'users' created successfully.")
          /\ MapHas(MapGet(databases, currentDatabase[1]).tables, "users")
          /\ ~WriteFailed(logged) =>
                /\ file.exists
                /\ \E d \in 1..Len(file.data) :
                      /\ file.data[d].name = currentDatabase[1]
                      /\ \E t \in 1..Len(file.data[d].tables) :
                            file.data[d].tables[t].name = "users"

\* a table has just been created through the selection: it is in the map's
\* entry of the selected database and in the file
C35_Witness ==
    /\ call = "createTable"
    /\ result.kind = "string"
    /\ ~WriteFailed(logged)
    /\ currentDatabase = Some("shop")
    /\ MapHas(MapGet(databases, "shop").tables, "users")
    /\ file = FileOf(databases)

----------------------------------------------------------------------------
(* Claims about texts with more than one statement.                        *)

\* the tokens of a text up to its first semicolon, and the EOF token
FirstStatement(toks) ==
    IF \E k \in 1..Len(toks) : toks[k].type = "SEMICOLON"
    THEN LET k == CHOOSE n \in 1..Len(toks) :
                     /\ toks[n].type = "SEMICOLON"
                     /\ \A m \in 1..(n - 1) : toks[m].type # "SEMICOLON"
         IN SubSeq(toks, 1, k) \o <<toks[Len(toks)]>>
    ELSE toks

\* C36: execute runs at most one statement per call: what it does and returns
\* for a text is what it does and returns for the text cut after its first
\* semicolon; of a complete statement followed by more tokens (a second
\* statement, the start of one, or tokens that are no statement) only the
\* first statement is executed, its result is returned, and the rest is
\* dropped without an error.
C36_OnlyTheFirstStatementIsExecuted ==
    /\ pc = "parse" =>
          RestOfExecute
             = Caught(ParseAndDispatch(databases, currentDatabase, FirstStatement(tokens)))
    /\ script = SeveralStatementsScript =>
          /\ Returned(1) =>
                results[1] = ReturnString("Database 'shop' created successfully")
          /\ Returned(2) => results[2] = ReturnString("Error: No database selected")
          /\ Returned(3) => results[3] = ReturnString("Using database 'shop'")
          /\ Returned(4) => results[4] = ReturnString("No tables found")
          /\ Returned(5) => results[5] = ReturnString("Table 't' created successfully.")
          /\ Returned(6) => results[6] = ReturnRows(<<>>)
          /\ Returned(7) => results[7] = ReturnString("1 row inserted")
          /\ Returned(8) => results[8] = ReturnRows(<<[c |-> Num(1)]>>)

\* every text of the script was answered: the second statements were not run
C36_Witness ==
    /\ script = SeveralStatementsScript
    /\ pc = "idle"
    /\ Returned(8)
    /\ results[6] = ReturnRows(<<>>)
    /\ results[8] = ReturnRows(<<[c |-> Num(1)]>>)
    /\ Len(TableNamed("t").rows) = 1

----------------------------------------------------------------------------
(* Claims about the names of columns.                                      *)

\* the arguments of a call with their column names in lower case
LowerColumns(columns) == [i \in 1..Len(columns) |-> toLowerCase(columns[i])]

LowerWhere(where) ==
    IF where = None THEN None ELSE Some([where[1] EXCEPT !.left = toLowerCase(@)])

LowerJoin(join) ==
    IF join = None THEN None
    ELSE Some([join[1] EXCEPT !.leftCol = toLowerCase(@), !.rightCol = toLowerCase(@)])

LowerUpdates(updates) ==
    [k \in 1..Len(updates) |-> <<toLowerCase(updates[k][1]), updates[k][2]>>]

LowerDeclared(columns) ==
    [i \in 1..Len(columns) |-> Column(toLowerCase(columns[i].name), columns[i].type)]

LowerConstraints(constraints) ==
    Constraints(IF constraints.primaryKey = None THEN None
                ELSE Some(toLowerCase(constraints.primaryKey[1])),
                [f \in 1..Len(constraints.foreignKeys) |->
                    ForeignKey(toLowerCase(constraints.foreignKeys[f].column),
                               constraints.foreignKeys[f].refTable,
                               toLowerCase(constraints.foreignKeys[f].refCol))])

\* every key of every record of a sequence is in lower case
LowerKeys(records) ==
    \A i \in 1..Len(records) : \A key \in DOMAIN records[i] : key = toLowerCase(key)

CasedColumns == {<<"*">>, <<"Name", "ID">>, <<"USER_ID">>}

CasedWheres ==
    { None, Some(Where("ID", "=", Num(1))), Some(Where("Name", "=", Str("a"))),
      Some(Where("User_Id", "<", Num(2))) }

CasedJoins == {None, Some(Join("orders", "ID", "USER_ID")), Some(Join("users", "User_Id", "Id"))}

\* C37: column names are case-insensitive in every operation: createTable,
\* selectFromTable (columns, WHERE, JOIN ... ON), updateTable (SET, WHERE),
\* deleteFromTable (WHERE) and createIndex do and return with names in any
\* casing what they do and return with the names in lower case; the columns
\* of every table, the keys of every stored row and of every record returned
\* are in lower case.
C37_ColumnNamesAreCaseInsensitive ==
    /\ \A t \in ExistingTables :
          /\ LowerKeys(TableNamed(t).rows)
          /\ \A k \in 1..Len(TableNamed(t).columns) :
                TableNamed(t).columns[k].name = toLowerCase(TableNamed(t).columns[k].name)
          /\ \A w \in CasedWheres :
                /\ \A cols \in CasedColumns, j \in CasedJoins :
                      LET out == selectFromTable(databases, currentDatabase, t, cols, w, j)
                      IN /\ out = selectFromTable(databases, currentDatabase, t,
                                                  LowerColumns(cols), LowerWhere(w),
                                                  LowerJoin(j))
                         /\ out.result.kind = "rows" => LowerKeys(out.result.rows)
                /\ \A u \in ProbeUpdates :
                      LET out == updateTable(databases, currentDatabase, t, u, w)
                      IN /\ out = updateTable(databases, currentDatabase, t,
                                              LowerUpdates(u), LowerWhere(w))
                         /\ LowerKeys(TableAfter(out, t).rows)
                /\ deleteFromTable(databases, currentDatabase, t, w)
                      = deleteFromTable(databases, currentDatabase, t, LowerWhere(w))
          /\ \A c \in {"Name", "ID"} :
                createIndex(databases, currentDatabase, t, c)
                   = createIndex(databases, currentDatabase, t, toLowerCase(c))
    /\ currentDatabase # None =>
          \A c \in CreateTableCalls :
              createTable(databases, currentDatabase, c.name, c.columns, c.constraints)
                 = createTable(databases, currentDatabase, c.name,
                               LowerDeclared(c.columns), LowerConstraints(c.constraints))

\* a row was inserted into the table declared with the columns ID and Name
\* (the one with a primary key): its keys are id and name
C37_Witness ==
    /\ call = "insertIntoTable"
    /\ result = ReturnString("1 row inserted")
    /\ "users" \in ExistingTables
    /\ TableNamed("users").constraints.primaryKey = Some("id")
    /\ Len(TableNamed("users").rows) > 0
    /\ \A i \in 1..Len(TableNamed("users").rows) :
          DOMAIN TableNamed("users").rows[i] = {"id", "name"}

----------------------------------------------------------------------------
(* The engine with a join across a restart: a host creates users and       *)
(* orders, inserts rows, one of them with fewer values than columns,       *)
(* selects with a join, and may construct the engine again from the file.  *)

ReloadCalls ==
    { [method |-> "createDatabase", name |-> "shop"],
      [method |-> "useDatabase", name |-> "shop"],
      [method |-> "createTable", name |-> "users",
       columns |-> <<Column("id", "INT"), Column("name", "TEXT")>>,
       constraints |-> Constraints(None, <<>>)],
      [method |-> "createTable", name |-> "orders",
       columns |-> <<Column("user_id", "INT"), Column("id", "INT")>>,
       constraints |-> Constraints(None, <<>>)],
      [method |-> "insertIntoTable", table |-> "users", values |-> <<Num(1), Str("a")>>],
      [method |-> "insertIntoTable", table |-> "orders", values |-> <<Num(1), Num(7)>>],
      [method |-> "insertIntoTable", table |-> "orders", values |-> <<Num(1)>>] }

NextReload ==
    \/ Call(ReloadCalls, "createDatabase", {TRUE})
    \/ Call(ReloadCalls, "useDatabase", {TRUE})
    \/ Call(ReloadCalls, "createTable", {TRUE})
    \/ Call(ReloadCalls, "insertIntoTable", {TRUE})
    \/ SelectFromTable
    \/ Restart

SpecReload == Init /\ [][NextReload]_vars

----------------------------------------------------------------------------
(* Claims about the records of a join.                                     *)

\* the names of the columns of a table of the current database
ColumnNames(tableName) ==
    {TableNamed(tableName).columns[k].name : k \in 1..Len(TableNamed(tableName).columns)}

\* a record is the pair of a left and a right row as the claim has it: every
\* column of the right table reads the right row's value, every other column
\* of the left table the left row's
RightWins(record, l, r, leftName, rightName) ==
    /\ \A k \in ColumnNames(rightName) : Get(record, k) = Get(r, k)
    /\ \A k \in ColumnNames(leftName) \ ColumnNames(rightName) :
          Get(record, k) = Get(l, k)

\* C38: each record of a join is the left row overlaid by the right row: a
\* column that both tables have reads the right table's value in the record,
\* in SELECT *, in a projection on the name and in a WHERE on the name; the
\* left table's value of that column is not in the result.
C38_JoinedRecordCarriesTheRightTablesValue ==
    \A leftName \in ExistingTables, join \in ProbeJoins :
        join.table \in ExistingTables =>
            LET out == selectFromTable(databases, currentDatabase, leftName,
                                       <<"*">>, None, Some(join))
                left == TableNamed(leftName).rows
                right == TableNamed(join.table).rows
                pairs == {p \in (1..Len(left)) \X (1..Len(right)) :
                            Get(left[p[1]], toLowerCase(join.leftCol))
                            = Get(right[p[2]], toLowerCase(join.rightCol))}
                shared == ColumnNames(leftName) \cap ColumnNames(join.table)
            IN /\ out.result.kind = "rows"
               /\ \A r \in 1..Len(out.result.rows) :
                     \E p \in pairs :
                         RightWins(out.result.rows[r], left[p[1]], right[p[2]],
                                   leftName, join.table)
               /\ \A k \in shared :
                     LET named == selectFromTable(databases, currentDatabase, leftName,
                                                  <<k>>, None, Some(join))
                     IN /\ Len(named.result.rows) = Len(out.result.rows)
                        /\ \A r \in 1..Len(named.result.rows) :
                              \E p \in pairs :
                                  /\ RightWins(out.result.rows[r], left[p[1]],
                                               right[p[2]], leftName, join.table)
                                  /\ Get(named.result.rows[r], k) = Get(right[p[2]], k)
               /\ \A k \in shared, v \in ProbeValues :
                     LET found == selectFromTable(databases, currentDatabase, leftName,
                                                  <<"*">>, Some(Where(k, "=", v)),
                                                  Some(join))
                     IN Len(found.result.rows)
                           = Cardinality({p \in pairs :
                                             LooseEquals(Get(right[p[2]], k), v)})

\* users JOIN orders has just returned, after a restart, a record whose id is
\* the user's id 1 for an order that has no id
C38_Witness ==
    /\ call = "selectFromTable"
    /\ result.kind = "rows"
    /\ {"users", "orders"} \subseteq ExistingTables
    /\ \E j \in 1..Len(TableNamed("orders").rows) :
          /\ "id" \notin DOMAIN TableNamed("orders").rows[j]
          /\ \E r \in 1..Len(result.rows) :
                result.rows[r] = [id |-> Num(1), name |-> Str("a"), user_id |-> Num(1)]

----------------------------------------------------------------------------
(* Claims about the names of databases and tables.                         *)

\* the names of the databases of a map
DatabaseNames(dbs) == {dbs[d].name : d \in 1..Len(dbs)}

\* the names of the tables of a database of a map
TableNames(dbs, name) ==
    {MapGet(dbs, name).tables[t].name : t \in 1..Len(MapGet(dbs, name).tables)}

\* C39: no operation drops a database or a table: in every step of the engine
\* each database name of the map is in the map afterwards, and each table
\* name of each database is in that database afterwards, whatever becomes of
\* the table's content.
C39_NamesAreNeverDropped ==
    [][ /\ DatabaseNames(databases) \subseteq DatabaseNames(databases')
        /\ \A name \in DatabaseNames(databases) :
              TableNames(databases, name) \subseteq TableNames(databases', name) ]_vars

\* createTable has just replaced users, which had rows when the row of orders
\* that refers to it was inserted: the name is there, the rows are not
C39_Witness ==
    /\ call = "createTable"
    /\ {"users", "orders"} \subseteq ExistingTables
    /\ Len(TableNamed("users").rows) = 0
    /\ Len(TableNamed("orders").rows) > 0

=============================================================================
